---------------------------- MODULE Spec2Model ----------------------------
(***************************************************************************)
(* Model of the schema validation and issue-aggregation engine of          *)
(* ai-doc-parser: validator.py (class Validator), the structural           *)
(* comparator validate_schema_structure of utils.py and the threshold of   *)
(* config.py.                                                              *)
(*                                                                         *)
(* Python values are tagged records whose tag is the Python type name.     *)
(* A dict is a sequence of <<key, value>> pairs in insertion order, a list *)
(* a sequence of values, a str a TLA+ string.  A float is a pair           *)
(* <<whole, tenth>> standing for whole + tenth/10.  Confidence values and  *)
(* the threshold are integers counting hundredths (0.5 is 50).  Issues and *)
(* metadata entries are records, with a field absent when the Python dict  *)
(* has no such key.  The outcome of a call is Return(value) or Raise(exc). *)
(***************************************************************************)
EXTENDS Integers, Sequences, FiniteSets, TLC

VARIABLES config, call, ret, frames, log

vars == <<config, call, ret, frames, log>>

---------------------------------------------------------------------------
(* Python values *)

PyNone == [kind |-> "NoneType"]

PyBool(b) == [kind |-> "bool", val |-> b]

PyInt(n) == [kind |-> "int", val |-> n]

PyFloat(whole, tenth) == [kind |-> "float", val |-> <<whole, tenth>>]

PyStr(s) == [kind |-> "str", val |-> s]

PyList(elems) == [kind |-> "list", val |-> elems]

PyDict(items) == [kind |-> "dict", val |-> items]

(* Outcomes of a call *)

Pending == [status |-> "pending"]

Return(v) == [status |-> "returned", value |-> v]

Raise(e) == [status |-> "raised", exc |-> e]

Raised(o) == o.status = "raised"

---------------------------------------------------------------------------
(* Python built-in behaviour used by the engine *)

\* type(v).__name__
TypeName(v) == v.kind

\* isinstance(v, classes); bool is a subclass of int
IsInstance(v, classes) ==
    \/ v.kind \in classes
    \/ v.kind = "bool" /\ "int" \in classes

\* bool(v)
Truthy(v) ==
    CASE v.kind = "NoneType" -> FALSE
      [] v.kind = "bool" -> v.val
      [] v.kind = "int" -> v.val # 0
      [] v.kind = "float" -> v.val # <<0, 0>>
      [] v.kind = "str" -> v.val # ""
      [] v.kind = "list" -> v.val # <<>>
      [] v.kind = "dict" -> v.val # <<>>

\* v == 0
EqualsZero(v) ==
    CASE v.kind = "bool" -> v.val = FALSE
      [] v.kind = "int" -> v.val = 0
      [] v.kind = "float" -> v.val = <<0, 0>>
      [] OTHER -> FALSE

\* sub in s, for two strings
IsSubstring(sub, s) ==
    \E i \in 1..(Len(s) + 1) :
        /\ i + Len(sub) - 1 <= Len(s)
        /\ SubSeq(s, i, i + Len(sub) - 1) = sub

DictKeys(d) == {d.val[i][1] : i \in 1..Len(d.val)}

DictLookup(d, key) == d.val[CHOOSE i \in 1..Len(d.val) : d.val[i][1] = key][2]

\* key in container, for a str key
Contains(key, container) ==
    CASE container.kind = "dict" -> Return(key \in DictKeys(container))
      [] container.kind = "list" ->
            Return(\E i \in 1..Len(container.val) :
                      /\ container.val[i].kind = "str"
                      /\ container.val[i].val = key)
      [] container.kind = "str" -> Return(IsSubstring(key, container.val))
      [] OTHER -> Raise("TypeError")

\* container[key], for a str key
Subscript(container, key) ==
    CASE container.kind = "dict" ->
            IF key \in DictKeys(container)
            THEN Return(DictLookup(container, key))
            ELSE Raise("KeyError")
      [] OTHER -> Raise("TypeError")

\* obj.get(key, default)
MethodGet(obj, key, default) ==
    IF obj.kind = "dict"
    THEN Return(IF key \in DictKeys(obj) THEN DictLookup(obj, key) ELSE default)
    ELSE Raise("AttributeError")

Digits == <<"0", "1", "2", "3", "4", "5", "6", "7", "8", "9">>

RECURSIVE NatToStr(_)
NatToStr(n) ==
    IF n < 10 THEN Digits[n + 1]
    ELSE NatToStr(n \div 10) \o Digits[(n % 10) + 1]

\* str(n) for an int
IntToStr(n) == IF n < 0 THEN "-" \o NatToStr(0 - n) ELSE NatToStr(n)

RECURSIVE EscapeStr(_)
EscapeStr(s) ==
    IF s = "" THEN ""
    ELSE LET c == SubSeq(s, 1, 1)
             e == CASE c = "\n" -> "\\n"
                    [] c = "\\" -> "\\\\"
                    [] c = "'" -> "\\'"
                    [] OTHER -> c
         IN e \o EscapeStr(SubSeq(s, 2, Len(s)))

RECURSIVE Repr(_)
RECURSIVE ReprElems(_)
RECURSIVE ReprItems(_)

\* repr(v)
Repr(v) ==
    CASE v.kind = "NoneType" -> "None"
      [] v.kind = "bool" -> IF v.val THEN "True" ELSE "False"
      [] v.kind = "int" -> IntToStr(v.val)
      [] v.kind = "float" -> IntToStr(v.val[1]) \o "." \o Digits[v.val[2] + 1]
      [] v.kind = "str" -> "'" \o EscapeStr(v.val) \o "'"
      [] v.kind = "list" -> "[" \o ReprElems(v.val) \o "]"
      [] v.kind = "dict" -> "{" \o ReprItems(v.val) \o "}"

ReprElems(elems) ==
    IF elems = <<>> THEN ""
    ELSE IF Len(elems) = 1 THEN Repr(elems[1])
    ELSE Repr(elems[1]) \o ", " \o ReprElems(Tail(elems))

ReprItems(items) ==
    IF items = <<>> THEN ""
    ELSE LET one == Repr(PyStr(items[1][1])) \o ": " \o Repr(items[1][2])
         IN IF Len(items) = 1 THEN one
            ELSE one \o ", " \o ReprItems(Tail(items))

\* str(v), also what an f-string renders for {v}
Str(v) == IF v.kind = "str" THEN v.val ELSE Repr(v)

\* \d of the patterns, over the ASCII characters of the documents drawn below
IsDigit(c) == c \in {Digits[i] : i \in 1..10}

AllDigits(s) == \A i \in 1..Len(s) : IsDigit(SubSeq(s, i, i))

\* '$' of re.match also matches just before one trailing newline
StripFinalNewline(s) ==
    IF Len(s) > 0 /\ SubSeq(s, Len(s), Len(s)) = "\n"
    THEN SubSeq(s, 1, Len(s) - 1)
    ELSE s

---------------------------------------------------------------------------
(* config.py *)

ValidationConfig ==
    [min_confidence_threshold |-> 70, require_manual_review_threshold |-> 50]

SystemConfig == [validation |-> ValidationConfig]

\* get_config() with the default reload = False
get_config(_config) == IF _config = PyNone THEN SystemConfig ELSE _config

---------------------------------------------------------------------------
(* utils.py: the structural comparator *)

RECURSIVE _validate_recursive(_, _, _)
RECURSIVE _validate_recursive_keys(_, _, _)

_validate_recursive(data_node, schema_node, path) ==
    IF IsInstance(schema_node, {"dict"})
    THEN IF ~IsInstance(data_node, {"dict"})
         THEN <<path \o ": Expected dict, got " \o TypeName(data_node)>>
         ELSE _validate_recursive_keys(data_node, schema_node.val, path)
    ELSE IF IsInstance(schema_node, {"list"})
    THEN IF ~IsInstance(data_node, {"list"})
         THEN <<path \o ": Expected list, got " \o TypeName(data_node)>>
         ELSE <<>>
    ELSE <<>>

\* the loop over schema_node.items() with an else branch that reports a key
\* of the target that the data lacks
_validate_recursive_keys_reporting_absent(data_node, items, path) ==
    IF items = <<>> THEN <<>>
    ELSE LET key == items[1][1]
             value == items[1][2]
             here == IF key \in DictKeys(data_node)
                     THEN _validate_recursive(DictLookup(data_node, key),
                                              value, path \o "." \o key)
                     ELSE <<path \o "." \o key \o ": Missing key">>
         IN here \o _validate_recursive_keys(data_node, Tail(items), path)

\* the loop over schema_node.items(), from the first of the given items on
_validate_recursive_keys(data_node, items, path) ==
    IF items = <<>> THEN <<>>
    ELSE LET key == items[1][1]
             value == items[1][2]
             here == IF key \in DictKeys(data_node)
                     THEN _validate_recursive(DictLookup(data_node, key),
                                              value, path \o "." \o key)
                     ELSE <<>>
         IN here \o _validate_recursive_keys(data_node, Tail(items), path)

\* the comparator without the isinstance test of line 325: 'key in
\* data_node' raises for a node that is not a container
validate_schema_structure_unguarded(data, schema) ==
    IF /\ IsInstance(schema, {"dict"}) /\ schema.val # <<>>
       /\ ~IsInstance(data, {"dict", "list", "str"})
    THEN Raise("TypeError")
    ELSE Return(_validate_recursive(data, schema, "root"))

validate_schema_structure(data, schema) ==
    Return(_validate_recursive(data, schema, "root"))

---------------------------------------------------------------------------
(* validator.py: the field rules *)

\* lines 124-133: employment_data.client_1.annual_income is numeric or null
AnnualIncomeRule(schema) ==
    LET has_employment == Contains("employment_data", schema)
    IN
    IF Raised(has_employment) THEN has_employment
    ELSE IF ~has_employment.value THEN Return(<<>>)
    ELSE
    LET employment == Subscript(schema, "employment_data")
        has_client == Contains("client_1", employment.value)
    IN
    IF Raised(has_client) THEN has_client
    ELSE IF ~has_client.value THEN Return(<<>>)
    ELSE
    LET client == Subscript(employment.value, "client_1")
    IN
    IF Raised(client) THEN client
    ELSE
    LET income == MethodGet(client.value, "annual_income", PyNone)
    IN
    IF Raised(income) THEN income
    ELSE IF /\ income.value.kind # "NoneType"
            /\ ~IsInstance(income.value, {"int", "float"})
    THEN Return(<<[type |-> "type_error",
                   field |-> "employment_data.client_1.annual_income",
                   message |-> "annual_income must be numeric, got "
                               \o TypeName(income.value),
                   severity |-> "high"]>>)
    ELSE Return(<<>>)

\* lines 135-143 with the null exemption of the income rule copied over
AssetsRuleNullAllowed(schema) ==
    LET has_assets == Contains("non_retirement_assets", schema)
    IN
    IF Raised(has_assets) THEN has_assets
    ELSE IF ~has_assets.value THEN Return(<<>>)
    ELSE
    LET assets == Subscript(schema, "non_retirement_assets")
    IN
    IF /\ assets.value.kind # "NoneType"
       /\ ~IsInstance(assets.value, {"list"})
    THEN Return(<<[type |-> "type_error",
                   field |-> "non_retirement_assets",
                   message |-> "non_retirement_assets must be a list, got "
                               \o TypeName(assets.value),
                   severity |-> "high"]>>)
    ELSE Return(<<>>)

\* lines 135-143: non_retirement_assets is a list
AssetsRule(schema) ==
    LET has_assets == Contains("non_retirement_assets", schema)
    IN
    IF Raised(has_assets) THEN has_assets
    ELSE IF ~has_assets.value THEN Return(<<>>)
    ELSE
    LET assets == Subscript(schema, "non_retirement_assets")
    IN
    IF ~IsInstance(assets.value, {"list"})
    THEN Return(<<[type |-> "type_error",
                   field |-> "non_retirement_assets",
                   message |-> "non_retirement_assets must be a list, got "
                               \o TypeName(assets.value),
                   severity |-> "high"]>>)
    ELSE Return(<<>>)

_validate_types(schema) ==
    LET income == AnnualIncomeRule(schema)
    IN
    IF Raised(income) THEN income
    ELSE
    LET assets == AssetsRule(schema)
    IN
    IF Raised(assets) THEN assets
    ELSE Return(income.value \o assets.value)

\* re.match(r'^\d{4}-\d{2}-\d{2}$', date_str)
_is_valid_date_format(date_str) ==
    IF date_str.kind # "str" THEN Raise("TypeError")
    ELSE LET s == StripFinalNewline(date_str.val)
         IN Return(/\ Len(s) = 10
                   /\ AllDigits(SubSeq(s, 1, 4))
                   /\ SubSeq(s, 5, 5) = "-"
                   /\ AllDigits(SubSeq(s, 6, 7))
                   /\ SubSeq(s, 8, 8) = "-"
                   /\ AllDigits(SubSeq(s, 9, 10)))

\* re.match(r'^\d{5}(-\d{4})?$', str(zip_code))
_is_valid_zip(zip_code) ==
    LET s == StripFinalNewline(Str(zip_code))
    IN Return(\/ /\ Len(s) = 5
                 /\ AllDigits(s)
              \/ /\ Len(s) = 10
                 /\ AllDigits(SubSeq(s, 1, 5))
                 /\ SubSeq(s, 6, 6) = "-"
                 /\ AllDigits(SubSeq(s, 7, 10)))

\* lines 159-168: the date of birth is YYYY-MM-DD
DobRule(schema) ==
    LET has_general == Contains("general_information", schema)
    IN
    IF Raised(has_general) THEN has_general
    ELSE IF ~has_general.value THEN Return(<<>>)
    ELSE
    LET general == Subscript(schema, "general_information")
        has_client == Contains("client_1", general.value)
    IN
    IF Raised(has_client) THEN has_client
    ELSE IF ~has_client.value THEN Return(<<>>)
    ELSE
    LET client == Subscript(general.value, "client_1")
    IN
    IF Raised(client) THEN client
    ELSE
    LET dob == MethodGet(client.value, "dob", PyNone)
    IN
    IF Raised(dob) THEN dob
    ELSE IF ~Truthy(dob.value) THEN Return(<<>>)
    ELSE
    LET valid == _is_valid_date_format(dob.value)
    IN
    IF Raised(valid) THEN valid
    ELSE IF ~valid.value
    THEN Return(<<[type |-> "format_error",
                   field |-> "general_information.client_1.dob",
                   message |-> "Invalid date format: " \o Str(dob.value)
                               \o " (expected YYYY-MM-DD)",
                   severity |-> "medium"]>>)
    ELSE Return(<<>>)

\* lines 170-181: the ZIP code, if present
ZipRule(schema) ==
    LET has_general == Contains("general_information", schema)
    IN
    IF Raised(has_general) THEN has_general
    ELSE IF ~has_general.value THEN Return(<<>>)
    ELSE
    LET general == Subscript(schema, "general_information")
        address == MethodGet(general.value, "home_address", PyDict(<<>>))
    IN
    IF Raised(address) THEN address
    ELSE IF ~(/\ IsInstance(address.value, {"dict"})
              /\ "zip" \in DictKeys(address.value))
    THEN Return(<<>>)
    ELSE
    LET zip_code == DictLookup(address.value, "zip")
    IN
    IF ~Truthy(zip_code) THEN Return(<<>>)
    ELSE
    LET valid == _is_valid_zip(zip_code)
    IN
    IF ~valid.value
    THEN Return(<<[type |-> "format_error",
                   field |-> "general_information.home_address.zip",
                   message |-> "Invalid ZIP code format: " \o Str(zip_code),
                   severity |-> "low"]>>)
    ELSE Return(<<>>)

\* lines 159-183 with the ZIP code checked before the date of birth
_validate_formats_zip_first(schema) ==
    LET zip == ZipRule(schema)
    IN
    IF Raised(zip) THEN zip
    ELSE
    LET dob == DobRule(schema)
    IN
    IF Raised(dob) THEN dob
    ELSE Return(zip.value \o dob.value)

_validate_formats(schema) ==
    LET dob == DobRule(schema)
    IN
    IF Raised(dob) THEN dob
    ELSE
    LET zip == ZipRule(schema)
    IN
    IF Raised(zip) THEN zip
    ELSE Return(dob.value \o zip.value)

---------------------------------------------------------------------------
(* validator.py: confidence, completeness, statistics *)

\* str(x) of a float given in hundredths: 50 is "0.5", 100 is "1.0"
HundredthsToStr(h) ==
    IntToStr(h \div 100) \o "." \o
    (IF h % 10 = 0 THEN Digits[((h % 100) \div 10) + 1]
     ELSE Digits[((h % 100) \div 10) + 1] \o Digits[(h % 10) + 1])

\* f"{x:.2f}" of a float given in hundredths
Format2f(h) ==
    IntToStr(h \div 100) \o "." \o
    Digits[((h % 100) \div 10) + 1] \o Digits[(h % 10) + 1]

\* meta.get('confidence', 0.0)
MetaConfidence(meta) ==
    IF "confidence" \in DOMAIN meta THEN meta.confidence ELSE 0

\* the truth value of meta.get('has_value')
MetaHasValue(meta) ==
    IF "has_value" \in DOMAIN meta THEN meta.has_value ELSE FALSE

\* the test of line 205 with <= for <
IsLowConfidenceInclusive(confidence, threshold, meta) ==
    confidence <= threshold /\ MetaHasValue(meta)

\* the test of line 205
IsLowConfidence(confidence, threshold, meta) ==
    confidence < threshold /\ MetaHasValue(meta)

RECURSIVE ConfidenceLoop(_, _)
\* the loop over metadata.items(), from the first of the given items on
ConfidenceLoop(items, threshold) ==
    IF items = <<>> THEN <<>>
    ELSE LET field_path == items[1][1]
             meta == items[1][2]
             confidence == MetaConfidence(meta)
             here == IF IsLowConfidence(confidence, threshold, meta)
                     THEN <<[type |-> "low_confidence",
                             field |-> field_path,
                             message |-> "Confidence " \o Format2f(confidence)
                                         \o " below threshold "
                                         \o HundredthsToStr(threshold),
                             severity |-> "medium",
                             confidence |-> confidence]>>
                     ELSE <<>>
         IN here \o ConfidenceLoop(Tail(items), threshold)

_validate_confidence(self, metadata) ==
    Return(ConfidenceLoop(metadata,
               self.config.validation.require_manual_review_threshold))

\* the test of line 248: not value and value != 0
IsEmptyValue(value) == ~Truthy(value) /\ ~EqualsZero(value)

RECURSIVE check_node(_, _, _)
RECURSIVE check_node_keys(_, _, _)

check_node(pop_node, target_node, path) ==
    IF IsInstance(target_node, {"dict"})
    THEN check_node_keys(pop_node, target_node.val, path)
    ELSE Return(<<>>)

\* the loop over target_node.items(), from the first of the given items on
check_node_keys(pop_node, items, path) ==
    IF items = <<>> THEN Return(<<>>)
    ELSE
    LET key == items[1][1]
        target_value == items[1][2]
        field_path == IF path # "" THEN path \o "." \o key ELSE key
        present == Contains(key, pop_node)
        here ==
            IF Raised(present) THEN present
            ELSE IF ~present.value
            THEN Return(<<[type |-> "missing_field",
                           field |-> field_path,
                           message |-> "Field '" \o field_path
                                       \o "' is missing",
                           severity |-> "medium"]>>)
            ELSE
            LET value == Subscript(pop_node, key)
            IN
            IF ~IsInstance(target_value, {"dict", "list"})
            THEN IF Raised(value) THEN value
                 ELSE IF IsEmptyValue(value.value)
                 THEN Return(<<[type |-> "empty_field",
                                field |-> field_path,
                                message |-> "Field '" \o field_path
                                            \o "' is empty",
                                severity |-> "low"]>>)
                 ELSE Return(<<>>)
            ELSE IF Raised(value) THEN value
                 ELSE check_node(value.value, target_value, field_path)
    IN
    IF Raised(here) THEN here
    ELSE
    LET rest == check_node_keys(pop_node, Tail(items), path)
    IN
    IF Raised(rest) THEN rest
    ELSE Return(here.value \o rest.value)

_check_completeness(populated_schema, target_schema) ==
    check_node(populated_schema, target_schema, "")

RECURSIVE GCD(_, _)
GCD(a, b) == IF b = 0 THEN a ELSE GCD(b, a % b)

\* the quotient n / d as a fraction <<numerator, denominator>> in lowest
\* terms; 0.0 is <<0, 1>>
Quotient(n, d) == <<n \div GCD(n, d), d \div GCD(n, d)>>

RECURSIVE Sum(_)
Sum(seq) == IF seq = <<>> THEN 0 ELSE seq[1] + Sum(Tail(seq))

\* counts[key] = 1 on a dict of counters: the old count is dropped
IncrementResetting(counts, key) ==
    IF \E i \in 1..Len(counts) : counts[i][1] = key
    THEN [i \in 1..Len(counts) |->
             IF counts[i][1] = key THEN <<key, 1>> ELSE counts[i]]
    ELSE Append(counts, <<key, 1>>)

\* counts[key] = counts.get(key, 0) + 1 on a dict of counters
Increment(counts, key) ==
    IF \E i \in 1..Len(counts) : counts[i][1] = key
    THEN [i \in 1..Len(counts) |->
             IF counts[i][1] = key THEN <<key, counts[i][2] + 1>>
             ELSE counts[i]]
    ELSE Append(counts, <<key, 1>>)

\* issue.get('type', 'unknown')
IssueType(issue) == IF "type" \in DOMAIN issue THEN issue.type ELSE "unknown"

\* issue.get('severity', 'low')
IssueSeverityDefaultLow(issue) ==
    IF "severity" \in DOMAIN issue THEN issue.severity ELSE "low"

\* issue.get('severity', 'medium')
IssueSeverity(issue) ==
    IF "severity" \in DOMAIN issue THEN issue.severity ELSE "medium"

RECURSIVE CountIssueTypes(_, _)
CountIssueTypes(issue_types, issues) ==
    IF issues = <<>> THEN issue_types
    ELSE CountIssueTypes(Increment(issue_types, IssueType(issues[1])),
                         Tail(issues))

RECURSIVE CountSeverities(_, _)
\* the loop of lines 289-294 on a dict that keeps no key with a zero count
CountSeveritiesWithoutZeros(severity_counts, issues) ==
    IF issues = <<>>
    THEN LET Counted(c) == c[2] > 0 IN SelectSeq(severity_counts, Counted)
    ELSE CountSeverities(Increment(severity_counts, IssueSeverity(issues[1])),
                         Tail(issues))

CountSeverities(severity_counts, issues) ==
    IF issues = <<>> THEN severity_counts
    ELSE CountSeverities(Increment(severity_counts, IssueSeverity(issues[1])),
                         Tail(issues))

\* populated_fields, line 282
CountPopulated(metadata) ==
    Cardinality({i \in 1..Len(metadata) : MetaHasValue(metadata[i][2])})

\* the mean of lines 297-298 taken over the entries that have a value
AverageConfidencePopulatedOnly(metadata) ==
    LET Populated(e) == MetaHasValue(e[2])
        populated == SelectSeq(metadata, Populated)
        confidences == [i \in 1..Len(populated) |->
                            MetaConfidence(populated[i][2])]
    IN IF confidences # <<>>
       THEN Quotient(Sum(confidences), Len(confidences))
       ELSE <<0, 1>>

\* average confidence, lines 297-298, in hundredths
AverageConfidence(metadata) ==
    LET confidences == [i \in 1..Len(metadata) |->
                            MetaConfidence(metadata[i][2])]
    IN IF confidences # <<>>
       THEN Quotient(Sum(confidences), Len(confidences))
       ELSE <<0, 1>>

_calculate_statistics(populated_schema, metadata, all_issues) ==
    LET total_fields == Len(metadata)
        populated_fields == CountPopulated(metadata)
        empty_fields == total_fields - populated_fields
    IN Return(
       [total_fields |-> total_fields,
        populated_fields |-> populated_fields,
        empty_fields |-> empty_fields,
        population_rate |-> IF total_fields > 0
                            THEN Quotient(populated_fields, total_fields)
                            ELSE <<0, 1>>,
        total_issues |-> Len(all_issues),
        issue_types |-> CountIssueTypes(<<>>, all_issues),
        severity_counts |->
            CountSeverities(<<<<"high", 0>>, <<"medium", 0>>, <<"low", 0>>>>,
                            all_issues),
        average_confidence |-> AverageConfidence(metadata)])

\* lines 66-69 with the type key left out of the wrapper
StructureIssuesUntyped(structure_errors) ==
    [i \in 1..Len(structure_errors) |-> [message |-> structure_errors[i]]]

\* lines 66-69: the comparator's messages wrapped as issues
StructureIssues(structure_errors) ==
    [i \in 1..Len(structure_errors) |->
        [type |-> "structure_error", message |-> structure_errors[i]]]

\* line 88 with the engine's own errors put first
CombineIssuesErrorsFirst(existing_issues, validation_errors, additional_issues) ==
    validation_errors \o existing_issues \o additional_issues

\* line 88
CombineIssues(existing_issues, validation_errors, additional_issues) ==
    existing_issues \o validation_errors \o additional_issues

\* line 97 with the comparison inverted
IsValidInverted(validation_errors) == Len(validation_errors) # 0

\* line 97
IsValid(validation_errors) == Len(validation_errors) = 0

validate(self, populated_schema, target_schema, metadata, existing_issues) ==
    LET structure_errors ==
            validate_schema_structure(populated_schema, target_schema)
        type_errors == _validate_types(populated_schema)
        format_errors == _validate_formats(populated_schema)
        confidence_issues == _validate_confidence(self, metadata)
        completeness_issues ==
            _check_completeness(populated_schema, target_schema)
    IN
    IF Raised(structure_errors) THEN structure_errors
    ELSE IF Raised(type_errors) THEN type_errors
    ELSE IF Raised(format_errors) THEN format_errors
    ELSE IF Raised(confidence_issues) THEN confidence_issues
    ELSE IF Raised(completeness_issues) THEN completeness_issues
    ELSE
    LET validation_errors == StructureIssues(structure_errors.value)
                             \o type_errors.value \o format_errors.value
        additional_issues == confidence_issues.value
                             \o completeness_issues.value
        all_issues == CombineIssues(existing_issues, validation_errors,
                                    additional_issues)
        stats == _calculate_statistics(populated_schema, metadata, all_issues)
    IN
    IF Raised(stats) THEN stats
    ELSE Return([is_valid |-> IsValid(validation_errors),
                 validation_errors |-> validation_errors,
                 all_issues |-> all_issues,
                 statistics |-> stats.value])

---------------------------------------------------------------------------
(* main.py: the metadata builder *)

\* metadata[key] = value on a dict in insertion order
DictSet(d, key, value) ==
    IF \E i \in 1..Len(d) : d[i][1] = key
    THEN [i \in 1..Len(d) |-> IF d[i][1] = key THEN <<key, value>> ELSE d[i]]
    ELSE Append(d, <<key, value>>)

RECURSIVE DictUpdate(_, _)
\* metadata.update(other)
DictUpdate(d, other) ==
    IF other = <<>> THEN d
    ELSE DictUpdate(DictSet(d, other[1][1], other[1][2]), Tail(other))

\* line 188 as bool(v): zero and False count as no value
HasValueTruthy(v) == Truthy(v)

\* line 188: v not in (None, "", [], {})
HasValue(v) == v \notin {PyNone, PyStr(""), PyList(<<>>), PyDict(<<>>)}

\* lines 189-192 with a dummy confidence of 0.4 for a present value
MetadataEntryHalfConfident(v) ==
    [has_value |-> HasValue(v),
     confidence |-> IF HasValue(v) THEN 40 ELSE 0]

\* lines 189-192, the confidence in hundredths
MetadataEntry(v) ==
    [has_value |-> HasValue(v),
     confidence |-> IF HasValue(v) THEN 100 ELSE 0]

RECURSIVE _generate_metadata(_, _)
RECURSIVE _generate_metadata_items(_, _, _)

_generate_metadata(data, path) ==
    IF IsInstance(data, {"dict"})
    THEN _generate_metadata_items(data.val, path, <<>>)
    ELSE <<>>

\* the loop over data.items(), from the first of the given items on
_generate_metadata_items(items, path, metadata) ==
    IF items = <<>> THEN metadata
    ELSE LET k == items[1][1]
             v == items[1][2]
             curr_path == IF path # "" THEN path \o "." \o k ELSE k
         IN _generate_metadata_items(
                Tail(items), path,
                IF IsInstance(v, {"dict", "list"})
                THEN DictUpdate(metadata, _generate_metadata(v, curr_path))
                ELSE DictSet(metadata, curr_path, MetadataEntry(v)))

---------------------------------------------------------------------------
(* extractor.py and main.py: the pipeline around validate.  A response is  *)
(* what the request and the parsing of lines 88-107 of extractor.py give:  *)
(* an exception, or the parsed data.  file_ids is the list that step 1 of  *)
(* process_documents has collected.  The result is modelled without its    *)
(* processing_info.                                                        *)

\* extractor.py lines 112-117 with a null document for a failed extraction
extract_from_files_null_document(file_ids, response) ==
    IF file_ids = <<>> THEN [error |-> "No files provided"]
    ELSE IF response.raised
    THEN [populated_schema |-> PyNone,
          issues |-> <<"Fatal extraction error: " \o response.error>>]
    ELSE response.data

\* extractor.py lines 47-117
extract_from_files(file_ids, response) ==
    IF file_ids = <<>> THEN [error |-> "No files provided"]
    ELSE IF response.raised
    THEN [populated_schema |-> PyDict(<<>>),
          issues |-> <<"Fatal extraction error: " \o response.error>>]
    ELSE response.data

\* main.py lines 126-129
FormatIssues(issues_from_llm) ==
    [i \in 1..Len(issues_from_llm) |->
        [type |-> "llm_flag", message |-> issues_from_llm[i],
         severity |-> "medium"]]

RECURSIVE _remove_empty_fields(_)
RECURSIVE RemoveEmptyItems(_)
RECURSIVE RemoveEmptyElems(_)

\* main.py lines 245-260
_remove_empty_fields(data) ==
    IF IsInstance(data, {"dict"}) THEN PyDict(RemoveEmptyItems(data.val))
    ELSE IF IsInstance(data, {"list"}) THEN PyList(RemoveEmptyElems(data.val))
    ELSE data

RemoveEmptyItems(items) ==
    IF items = <<>> THEN <<>>
    ELSE LET v == _remove_empty_fields(items[1][2])
         IN (IF HasValue(v) THEN <<<<items[1][1], v>>>> ELSE <<>>)
            \o RemoveEmptyItems(Tail(items))

RemoveEmptyElems(elems) ==
    IF elems = <<>> THEN <<>>
    ELSE LET v == _remove_empty_fields(elems[1])
         IN (IF HasValue(v) THEN <<v>> ELSE <<>>)
            \o RemoveEmptyElems(Tail(elems))

\* main.py lines 200-221
_build_final_result(populated_schema, metadata, validation_result) ==
    [client_profile |-> populated_schema,
     field_metadata |-> metadata,
     issues_for_review |-> validation_result.all_issues,
     validation |-> [is_valid |-> validation_result.is_valid,
                     statistics |-> validation_result.statistics]]

\* main.py lines 223-243; the empty statistics dict is <<>>
_build_error_result(self, error_message) ==
    [client_profile |-> self.target_schema,
     field_metadata |-> <<>>,
     issues_for_review |-> <<[type |-> "fatal_error", severity |-> "critical",
                              message |-> error_message]>>,
     validation |-> [is_valid |-> FALSE, statistics |-> <<>>]]

\* main.py lines 153-172
FinishReport(populated_schema, metadata, validation_result) ==
    IF Raised(validation_result) THEN validation_result
    ELSE
    LET final_result == _build_final_result(populated_schema, metadata,
                                            validation_result.value)
    IN Return(IF Truthy(final_result.client_profile)
              THEN [final_result EXCEPT !.client_profile =
                                            _remove_empty_fields(@)]
              ELSE final_result)

\* main.py lines 138-145
ValidateExtraction(self, populated_schema, formatted_issues, metadata) ==
    FinishReport(populated_schema, metadata,
                 validate(self.validator, populated_schema,
                          self.target_schema, metadata, formatted_issues))

\* main.py lines 119-138
ProcessExtraction(self, extraction_result) ==
    LET populated_schema ==
            IF "populated_schema" \in DOMAIN extraction_result
            THEN extraction_result.populated_schema ELSE PyDict(<<>>)
        issues_from_llm ==
            IF "issues" \in DOMAIN extraction_result
            THEN extraction_result.issues ELSE <<>>
    IN ValidateExtraction(self, populated_schema, FormatIssues(issues_from_llm),
                          _generate_metadata(populated_schema, ""))

\* main.py lines 111-172
process_documents(self, file_ids, response) ==
    IF file_ids = <<>>
    THEN Return(_build_error_result(
                    self, "No valid documents found or upload failed"))
    ELSE ProcessExtraction(self, extract_from_files(file_ids, response))

---------------------------------------------------------------------------
(* Bounded inputs *)

MaxMetadata == 2

MaxIssues == 2

\* the dict items of an optional key: no item, or one item per value
Opt(key, values) == {<<>>} \cup {<<<<key, v>>>> : v \in values}

One(key, values) == {<<<<key, v>>>> : v \in values}

Dicts(itemSeqs) == {PyDict(items) : items \in itemSeqs}

Join(A, B) == {a \o b : a \in A, b \in B}

EmptyValues == {PyNone, PyStr(""), PyList(<<>>), PyDict(<<>>)}

Scalars ==
    {PyNone, PyBool(TRUE), PyBool(FALSE), PyInt(0), PyInt(5), PyFloat(0, 0),
     PyFloat(1, 5), PyStr(""), PyStr("xyz"), PyStr("abc")}

Lists == {PyList(<<>>), PyList(<<PyInt(1), PyInt(2)>>), PyList(<<PyStr("b")>>)}

\* targets: the two examples of the specification, a nested shape, the
\* client profile the field rules are written for, and the empty object
TargetA == PyDict(<<<<"a", PyDict(<<<<"b", PyInt(1)>>>>)>>>>)

TargetX ==
    PyDict(<<<<"x", PyDict(<<<<"y", PyStr("")>>, <<"z", PyInt(5)>>>>)>>>>)

TargetNested ==
    PyDict(<<<<"a", PyDict(<<<<"b", PyDict(<<<<"c", PyInt(1)>>>>)>>,
                             <<"l", PyList(<<PyInt(1)>>)>>>>)>>,
             <<"l", PyList(<<>>)>>,
             <<"s", PyStr("")>>>>)

TargetProfile ==
    PyDict(<<<<"general_information",
               PyDict(<<<<"client_1", PyDict(<<<<"dob", PyStr("")>>>>)>>,
                        <<"home_address", PyDict(<<<<"zip", PyStr("")>>>>)>>>>)>>,
             <<"employment_data",
               PyDict(<<<<"client_1",
                          PyDict(<<<<"annual_income", PyNone>>>>)>>>>)>>,
             <<"non_retirement_assets", PyList(<<>>)>>>>)

Targets == {TargetA, TargetX, TargetNested, TargetProfile, PyDict(<<>>)}

\* populated documents over the keys of TargetA and TargetNested
ValuesB ==
    {PyNone, PyInt(0), PyInt(5), PyStr(""), PyList(<<>>),
     PyList(<<PyInt(1), PyInt(2)>>), PyDict(<<>>),
     PyDict(<<<<"c", PyInt(1)>>>>), PyDict(<<<<"c", PyStr("")>>>>)}

ValuesA == Scalars \cup Lists \cup {PyDict(<<>>)} \cup Dicts(One("b", ValuesB))

PopulatedA ==
    Dicts(Opt("a", ValuesA))
    \cup Dicts(Join(Join(One("a", {PyInt(5), PyList(<<PyInt(1), PyInt(2)>>),
                                   PyDict(<<<<"b", PyInt(5)>>>>),
                                   PyDict(<<<<"l", PyInt(5)>>>>)}),
                         Opt("l", {PyList(<<>>), PyInt(5), PyDict(<<>>)})),
                    Opt("s", {PyStr(""), PyStr("t")})))

\* populated documents over the keys of TargetX
PopulatedX ==
    Dicts(One("x", Dicts(Join(Opt("y", EmptyValues \cup
                                       {PyStr("v"), PyInt(0), PyFloat(0, 0),
                                        PyBool(FALSE)}),
                              Opt("z", {PyInt(5), PyInt(0), PyStr("")})))))
    \cup Dicts(One("x", {PyStr(""), PyStr("y"),
                         PyList(<<PyStr("y"), PyStr("z")>>)}))

\* populated documents for the type rules
Incomes ==
    {PyNone, PyInt(0), PyInt(50000), PyFloat(50000, 5),
     PyStr("fifty-thousand"), PyStr(""), PyBool(TRUE), PyBool(FALSE),
     PyList(<<>>), PyList(<<PyInt(1)>>), PyDict(<<>>),
     PyDict(<<<<"k", PyInt(1)>>>>)}

EmploymentClients ==
    {PyNone, PyInt(5), PyStr("s"), PyList(<<>>), PyDict(<<>>)}
    \cup Dicts(One("annual_income", Incomes))

Employments ==
    {PyNone, PyInt(5), PyStr("client_1"), PyStr("other"),
     PyList(<<PyStr("client_1")>>), PyList(<<>>), PyDict(<<>>)}
    \cup Dicts(One("client_1", EmploymentClients))

Assets ==
    {PyNone, PyList(<<>>), PyList(<<PyInt(1), PyStr("a")>>), PyDict(<<>>),
     PyStr("x"), PyInt(0), PyBool(FALSE)}

PopulatedTypes ==
    Dicts(Join(Opt("employment_data", Employments),
               Opt("non_retirement_assets", Assets)))

\* populated documents for the format rules
Dobs ==
    {PyNone, PyStr(""), PyStr("1990-10-29"), PyStr("10/29/1990"),
     PyStr("1990-10-29\n"), PyStr("1990-1-29"), PyStr("19901029"),
     PyStr("1990-10-2x"), PyInt(0), PyInt(5), PyBool(TRUE),
     PyList(<<PyStr("1990-10-29")>>)}

Zips ==
    {PyNone, PyStr(""), PyStr("12345"), PyStr("12345-6789"), PyStr("1234"),
     PyStr("12345-678"), PyStr("abcde"), PyStr("12345\n"), PyInt(12345),
     PyInt(1234), PyInt(0), PyBool(TRUE), PyFloat(12345, 0),
     PyList(<<PyInt(1), PyStr("a")>>)}

GeneralClients ==
    {PyNone, PyInt(5), PyDict(<<>>)} \cup Dicts(One("dob", Dobs))

HomeAddresses ==
    {PyNone, PyStr("zip"), PyList(<<PyStr("zip")>>), PyDict(<<>>)}
    \cup Dicts(One("zip", Zips))

Generals ==
    {PyNone, PyInt(5), PyStr("client_1"), PyList(<<>>), PyDict(<<>>)}
    \cup Dicts(Join(Opt("client_1", GeneralClients),
                    Opt("home_address", HomeAddresses)))

PopulatedFormats == Dicts(One("general_information", Generals))

PopulatedDocs ==
    PopulatedA \cup PopulatedX \cup PopulatedTypes \cup PopulatedFormats

\* a populated document on which every rule and the comparator report
ErroneousDoc ==
    PyDict(<<<<"general_information",
               PyDict(<<<<"client_1",
                          PyDict(<<<<"dob", PyStr("10/29/1990")>>>>)>>,
                        <<"home_address",
                          PyDict(<<<<"zip", PyStr("1234")>>>>)>>>>)>>,
             <<"employment_data",
               PyDict(<<<<"client_1",
                          PyDict(<<<<"annual_income",
                                     PyStr("fifty-thousand")>>>>)>>>>)>>,
             <<"non_retirement_assets", PyNone>>,
             <<"a", PyList(<<PyInt(1), PyInt(2)>>)>>>>)

\* populated documents for whole validations: every pass has documents that
\* make it report, and documents that make it raise
ValidateDocs ==
    Dicts(Opt("a", {PyList(<<PyInt(1), PyInt(2)>>), PyInt(5), PyStr("xyz"),
                    PyDict(<<>>), PyDict(<<<<"b", PyInt(5)>>>>),
                    PyDict(<<<<"b", PyStr("")>>>>)}))
    \cup Dicts(One("x", {PyDict(<<<<"z", PyInt(5)>>>>),
                         PyDict(<<<<"y", PyStr("")>>>>),
                         PyDict(<<<<"y", PyStr("")>>, <<"z", PyInt(0)>>>>),
                         PyDict(<<<<"y", PyStr("v")>>, <<"z", PyInt(5)>>>>)}))
    \cup Dicts(Join(Join(
            Opt("general_information",
                {PyDict(<<<<"client_1",
                            PyDict(<<<<"dob", PyStr("10/29/1990")>>>>)>>,
                          <<"home_address",
                            PyDict(<<<<"zip", PyStr("1234")>>>>)>>>>),
                 PyDict(<<<<"client_1",
                            PyDict(<<<<"dob", PyStr("1990-10-29")>>>>)>>,
                          <<"home_address",
                            PyDict(<<<<"zip", PyStr("")>>>>)>>>>)}),
            One("employment_data",
                {PyInt(5),
                 PyDict(<<<<"client_1",
                            PyDict(<<<<"annual_income",
                                       PyStr("fifty-thousand")>>>>)>>>>),
                 PyDict(<<<<"client_1",
                            PyDict(<<<<"annual_income", PyInt(0)>>>>)>>>>)})),
            Opt("non_retirement_assets", {PyNone, PyList(<<>>)})))
    \cup {ErroneousDoc}

\* documents for the comparator: arrays whose elements differ from the
\* target's, and roots and targets of every kind
TargetItems ==
    PyDict(<<<<"items", PyList(<<PyDict(<<<<"k", PyInt(1)>>>>)>>)>>,
             <<"tags", PyList(<<>>)>>>>)

ItemsDocs ==
    Dicts(Join(Opt("items", {PyList(<<>>), PyList(<<PyInt(5), PyStr("x")>>),
                             PyList(<<PyDict(<<<<"k", PyStr("v")>>>>)>>),
                             PyList(<<PyDict(<<<<"other", PyInt(1)>>>>)>>),
                             PyDict(<<>>), PyNone, PyStr("s"), PyInt(5)}),
               Opt("tags", {PyList(<<>>), PyList(<<PyInt(1)>>), PyStr("t")})))

ComparatorData == PopulatedDocs \cup ItemsDocs \cup Scalars \cup Lists

ComparatorSchemas ==
    Targets \cup {TargetItems, PyList(<<>>), PyList(<<PyInt(1)>>), PyStr(""),
                  PyInt(1), PyNone}

\* documents for the metadata builder
MetadataDocs == ComparatorData \cup {TargetNested, TargetProfile, ErroneousDoc}

\* inputs of the pipeline
FileIds == {<<>>, <<"file-1">>}

PipelineDocs ==
    {PyDict(<<>>), ErroneousDoc, TargetProfile,
     PyDict(<<<<"x", PyDict(<<<<"y", PyStr("")>>, <<"z", PyInt(0)>>>>)>>>>),
     PyDict(<<<<"a", PyDict(<<<<"b", PyInt(5)>>>>)>>,
              <<"l", PyList(<<PyInt(1), PyStr("")>>)>>, <<"s", PyNone>>>>),
     PyDict(<<<<"a", PyInt(5)>>>>)}

LlmIssues == {<<>>, <<"Ambiguous name">>, <<"Ambiguous name", "Two dates">>}

Responses ==
    {[raised |-> TRUE, error |-> "Connection error."]}
    \cup {[raised |-> FALSE,
           data |-> [populated_schema |-> p, issues |-> i]] :
             p \in PipelineDocs, i \in LlmIssues}
    \cup {[raised |-> FALSE, data |-> [issues |-> <<"No data">>]],
          [raised |-> FALSE, data |-> [populated_schema |-> TargetProfile]]}

MetaPaths == <<"f", "g", "employment_data.client_1.annual_income", "x.y">>

MetaEntries ==
    {[has_value |-> TRUE, confidence |-> 30],
     [has_value |-> TRUE, confidence |-> 50],
     [has_value |-> TRUE, confidence |-> 100],
     [has_value |-> FALSE, confidence |-> 0],
     [has_value |-> TRUE]}

\* metadata maps of at most MaxMetadata entries, keyed by the first paths
Metadatas ==
    UNION {{[i \in 1..n |-> <<MetaPaths[i], e[i]>>] : e \in [1..n -> MetaEntries]}
           : n \in 0..MaxMetadata}

\* issues of an upstream stage (main.py builds the first shape)
UpstreamIssues ==
    {[type |-> "llm_flag", message |-> "Ambiguous name", severity |-> "medium"],
     [type |-> "fatal_error", message |-> "No documents", severity |-> "high"],
     [message |-> "note"]}

EngineIssues ==
    {[type |-> "structure_error", message |-> "root.a: Expected dict, got int"],
     [type |-> "empty_field", field |-> "s", message |-> "Field 's' is empty",
      severity |-> "low"]}

SeqsUpTo(S, n) == UNION {[1..k -> S] : k \in 0..n}

ExistingIssues == SeqsUpTo(UpstreamIssues, MaxIssues)

\* the issue of main.py's error result, with a severity outside the three
ErrorResultIssues ==
    {[type |-> "fatal_error", severity |-> "critical",
      message |-> "No valid documents found or upload failed"]}

IssueLists ==
    SeqsUpTo(UpstreamIssues \cup EngineIssues \cup ErrorResultIssues, MaxIssues)

---------------------------------------------------------------------------
(* The state machine: one call of one operation of the engine.  config is   *)
(* the configuration the Validator got at construction; call is the        *)
(* operation and its arguments; ret is the outcome of the call.            *)

Init ==
    /\ config = get_config(PyNone)
    /\ ret = Pending
    /\ frames = <<>>
    /\ log = {}
    /\ \/ \E p \in ValidateDocs, t \in Targets, m \in Metadatas,
            e \in ExistingIssues :
            call = [op |-> "validate", populated_schema |-> p,
                    target_schema |-> t, metadata |-> m,
                    existing_issues |-> e]
       \/ \E p \in ComparatorData, t \in ComparatorSchemas :
            call = [op |-> "validate_schema_structure", data |-> p,
                    schema |-> t]
       \/ \E p \in PopulatedDocs :
            call = [op |-> "_validate_types", schema |-> p]
       \/ \E p \in PopulatedDocs :
            call = [op |-> "_validate_formats", schema |-> p]
       \/ \E m \in Metadatas :
            call = [op |-> "_validate_confidence", metadata |-> m]
       \/ \E p \in PopulatedDocs, t \in Targets :
            call = [op |-> "_check_completeness", populated_schema |-> p,
                    target_schema |-> t]
       \/ \E m \in Metadatas, i \in IssueLists :
            call = [op |-> "_calculate_statistics",
                    populated_schema |-> PyDict(<<>>), metadata |-> m,
                    all_issues |-> i]
       \/ \E p \in MetadataDocs :
            call = [op |-> "_generate_metadata", data |-> p]
       \/ \E t \in Targets, f \in FileIds, r \in Responses :
            call = [op |-> "process_documents", target_schema |-> t,
                    file_ids |-> f, response |-> r]

\* validate with a report made invalid by an upstream issue of severity high
ValidateFailingOnHigh ==
    /\ call.op = "validate"
    /\ ret = Pending
    /\ ret' = LET r == validate([config |-> config], call.populated_schema,
                               call.target_schema, call.metadata,
                               call.existing_issues)
                  e == call.existing_issues
              IN IF /\ ~Raised(r)
                    /\ \E i \in 1..Len(e) : IssueSeverity(e[i]) = "high"
                 THEN Return([r.value EXCEPT !.is_valid = FALSE])
                 ELSE r
    /\ UNCHANGED <<config, call, frames, log>>

Validate ==
    /\ call.op = "validate"
    /\ ret = Pending
    /\ ret' = validate([config |-> config], call.populated_schema,
                       call.target_schema, call.metadata,
                       call.existing_issues)
    /\ UNCHANGED <<config, call, frames, log>>

ValidateSchemaStructure ==
    /\ call.op = "validate_schema_structure"
    /\ ret = Pending
    /\ ret' = validate_schema_structure(call.data, call.schema)
    /\ UNCHANGED <<config, call, frames, log>>

ValidateTypes ==
    /\ call.op = "_validate_types"
    /\ ret = Pending
    /\ ret' = _validate_types(call.schema)
    /\ UNCHANGED <<config, call, frames, log>>

ValidateFormats ==
    /\ call.op = "_validate_formats"
    /\ ret = Pending
    /\ ret' = _validate_formats(call.schema)
    /\ UNCHANGED <<config, call, frames, log>>

ValidateConfidence ==
    /\ call.op = "_validate_confidence"
    /\ ret = Pending
    /\ ret' = _validate_confidence([config |-> config], call.metadata)
    /\ UNCHANGED <<config, call, frames, log>>

CheckCompleteness ==
    /\ call.op = "_check_completeness"
    /\ ret = Pending
    /\ ret' = _check_completeness(call.populated_schema, call.target_schema)
    /\ UNCHANGED <<config, call, frames, log>>

CalculateStatistics ==
    /\ call.op = "_calculate_statistics"
    /\ ret = Pending
    /\ ret' = _calculate_statistics(call.populated_schema, call.metadata,
                                    call.all_issues)
    /\ UNCHANGED <<config, call, frames, log>>

GenerateMetadata ==
    /\ call.op = "_generate_metadata"
    /\ ret = Pending
    /\ ret' = Return(_generate_metadata(call.data, ""))
    /\ UNCHANGED <<config, call, frames, log>>

ProcessDocuments ==
    /\ call.op = "process_documents"
    /\ ret = Pending
    /\ ret' = process_documents([target_schema |-> call.target_schema,
                                 validator |-> [config |-> config]],
                                call.file_ids, call.response)
    /\ UNCHANGED <<config, call, frames, log>>

Next ==
    \/ Validate
    \/ ValidateSchemaStructure
    \/ ValidateTypes
    \/ ValidateFormats
    \/ ValidateConfidence
    \/ CheckCompleteness
    \/ CalculateStatistics
    \/ GenerateMetadata
    \/ ProcessDocuments

Spec == Init /\ [][Next]_vars

TypeOK ==
    /\ config = SystemConfig
    /\ ret.status \in {"pending", "returned", "raised"}

---------------------------------------------------------------------------
(* validate step by step.  frames[t] is the activation record of caller    *)
(* t's call of validate: the four argument objects of the caller, the      *)
(* locals of lines 61-85, and pc, the next statement.  log is the set of   *)
(* finished calls, each with the arguments it was made with.               *)

Callers == {1, 2}

\* the Validator instances; __init__ stores the process-wide configuration
Validators == {1, 2}

Self(v) == [config |-> config]

CallDocs ==
    {<<PyDict(<<<<"a", PyList(<<PyInt(1), PyInt(2)>>)>>>>), TargetA>>,
     <<PyDict(<<<<"a", PyInt(5)>>>>), TargetA>>,
     <<PyDict(<<<<"x", PyDict(<<<<"y", PyStr("")>>>>)>>>>), TargetX>>,
     <<PyDict(<<<<"general_information",
                  PyDict(<<<<"client_1",
                             PyDict(<<<<"dob", PyStr("10/29/1990")>>>>)>>,
                           <<"home_address",
                             PyDict(<<<<"zip", PyStr("1234")>>>>)>>>>)>>,
                <<"employment_data",
                  PyDict(<<<<"client_1",
                             PyDict(<<<<"annual_income",
                                        PyStr("fifty-thousand")>>>>)>>>>)>>,
                <<"non_retirement_assets", PyNone>>>>), TargetProfile>>,
     <<PyDict(<<<<"general_information",
                  PyDict(<<<<"client_1", PyNone>>>>)>>,
                <<"a", PyInt(5)>>>>), TargetA>>}

CallMetadata ==
    <<<<"f", [has_value |-> TRUE, confidence |-> 30]>>,
      <<"g", [has_value |-> TRUE, confidence |-> 100]>>>>

CallExisting ==
    <<[type |-> "llm_flag", message |-> "Ambiguous name",
       severity |-> "medium"]>>

\* the arguments of one call: each document pair with or without metadata
\* and upstream issues
CallInputs ==
    {[populated_schema |-> d[1], target_schema |-> d[2],
      metadata |-> IF d[2] = TargetProfile THEN <<>> ELSE CallMetadata,
      existing_issues |-> IF d[2] = TargetX THEN <<>> ELSE CallExisting] :
        d \in CallDocs}

Idle == [pc |-> "idle"]

\* lines 36-62: the call binds the arguments and the two empty lists
Enter(v, a) ==
    [pc |-> "structure", self |-> v,
     populated_schema |-> a.populated_schema,
     target_schema |-> a.target_schema,
     metadata |-> a.metadata,
     existing_issues |-> a.existing_issues,
     before |-> a,
     structure_errors |-> Pending, type_errors |-> Pending,
     format_errors |-> Pending, confidence_issues |-> Pending,
     completeness_issues |-> Pending,
     validation_errors |-> <<>>, additional_issues |-> <<>>,
     order |-> <<>>, ret |-> Pending]

\* the call of caller t ends with outcome o
Leave(t, f, o) ==
    /\ frames' = [frames EXCEPT ![t] = [f EXCEPT !.pc = "done", !.ret = o]]
    /\ log' = log \cup {[inputs |-> f.before, ret |-> o]}

\* the call of caller t goes on at statement pc
Goto(t, f, pc) ==
    /\ frames' = [frames EXCEPT ![t] = [f EXCEPT !.pc = pc]]
    /\ log' = log

\* lines 88-110: combine the issues, compute the statistics, return
Finish(f, validation_errors, additional_issues) ==
    LET all_issues == CombineIssues(f.existing_issues, validation_errors,
                                    additional_issues)
        stats == _calculate_statistics(f.populated_schema, f.metadata,
                                       all_issues)
    IN
    IF Raised(stats) THEN stats
    ELSE Return([is_valid |-> IsValid(validation_errors),
                 validation_errors |-> validation_errors,
                 all_issues |-> all_issues,
                 statistics |-> stats.value])

\* a caller that has no call in progress calls validate on an instance; a
\* list kept on the instance would survive from the caller's previous call
CallValidateKeepingErrors(t) ==
    /\ frames[t].pc \in {"idle", "done"}
    /\ \E v \in Validators, a \in CallInputs :
          frames' = [frames EXCEPT ![t] =
                        [Enter(v, a) EXCEPT !.validation_errors =
                            IF frames[t].pc = "done"
                               /\ frames[t].ret.status = "returned"
                               /\ Len(frames[t].validation_errors) < 2
                            THEN frames[t].validation_errors ELSE <<>>]]
    /\ UNCHANGED <<config, call, ret, log>>

\* a caller that has no call in progress calls validate on an instance
CallValidate(t) ==
    /\ frames[t].pc \in {"idle", "done"}
    /\ \E v \in Validators, a \in CallInputs :
          frames' = [frames EXCEPT ![t] = Enter(v, a)]
    /\ UNCHANGED <<config, call, ret, log>>

\* lines 65-69
StructureStep(t) ==
    /\ frames[t].pc = "structure"
    /\ LET f == frames[t]
           o == validate_schema_structure(f.populated_schema, f.target_schema)
       IN IF Raised(o) THEN Leave(t, f, o)
          ELSE Goto(t, [f EXCEPT !.structure_errors = o,
                                 !.validation_errors =
                                     @ \o StructureIssues(o.value)],
                    "types")
    /\ UNCHANGED <<config, call, ret>>

\* lines 72-73
TypesStep(t) ==
    /\ frames[t].pc = "types"
    /\ LET f == frames[t]
           o == _validate_types(f.populated_schema)
       IN IF Raised(o) THEN Leave(t, f, o)
          ELSE Goto(t, [f EXCEPT !.type_errors = o,
                                 !.validation_errors = @ \o o.value],
                    "formats")
    /\ UNCHANGED <<config, call, ret>>

\* lines 76-77
FormatsStep(t) ==
    /\ frames[t].pc = "formats"
    /\ LET f == frames[t]
           o == _validate_formats(f.populated_schema)
       IN IF Raised(o) THEN Leave(t, f, o)
          ELSE Goto(t, [f EXCEPT !.format_errors = o,
                                 !.validation_errors = @ \o o.value],
                    "confidence")
    /\ UNCHANGED <<config, call, ret>>

\* lines 80-81
ConfidenceStep(t) ==
    /\ frames[t].pc = "confidence"
    /\ LET f == frames[t]
           o == _validate_confidence(Self(f.self), f.metadata)
       IN IF Raised(o) THEN Leave(t, f, o)
          ELSE Goto(t, [f EXCEPT !.confidence_issues = o,
                                 !.additional_issues = @ \o o.value],
                    "completeness")
    /\ UNCHANGED <<config, call, ret>>

\* lines 84-85 with the list of the scan shared by the calls in progress
\* instead of created by each scan (line 231)
CompletenessStepSharedList(t) ==
    /\ frames[t].pc = "completeness"
    /\ LET f == frames[t]
           o == _check_completeness(f.populated_schema, f.target_schema)
           others == {u \in Callers \ {t} : frames[u].pc = "combine"}
           shared == IF others = {} THEN <<>>
                     ELSE frames[CHOOSE u \in others : TRUE]
                              .completeness_issues.value
       IN IF Raised(o) THEN Leave(t, f, o)
          ELSE Goto(t, [f EXCEPT !.completeness_issues = o,
                                 !.additional_issues =
                                     @ \o shared \o o.value],
                    "combine")
    /\ UNCHANGED <<config, call, ret>>

\* lines 84-85
CompletenessStep(t) ==
    /\ frames[t].pc = "completeness"
    /\ LET f == frames[t]
           o == _check_completeness(f.populated_schema, f.target_schema)
       IN IF Raised(o) THEN Leave(t, f, o)
          ELSE Goto(t, [f EXCEPT !.completeness_issues = o,
                                 !.additional_issues = @ \o o.value],
                    "combine")
    /\ UNCHANGED <<config, call, ret>>

\* lines 88-110 with the issues added to the caller's list in place
\* (existing_issues.extend) instead of concatenated into a new list
ReturnStepInPlace(t) ==
    /\ frames[t].pc = "combine"
    /\ LET f == frames[t]
           o == Finish(f, f.validation_errors, f.additional_issues)
       IN Leave(t, [f EXCEPT !.existing_issues =
                        @ \o f.validation_errors \o f.additional_issues], o)
    /\ UNCHANGED <<config, call, ret>>

\* lines 88-110
ReturnStep(t) ==
    /\ frames[t].pc = "combine"
    /\ LET f == frames[t]
       IN Leave(t, f, Finish(f, f.validation_errors, f.additional_issues))
    /\ UNCHANGED <<config, call, ret>>

InitCalls ==
    /\ config = get_config(PyNone)
    /\ call = [op |-> "none"]
    /\ ret = Pending
    /\ frames = [t \in Callers |-> Idle]
    /\ log = {}

NextCalls ==
    \E t \in Callers :
        \/ CallValidate(t)
        \/ StructureStep(t)
        \/ TypesStep(t)
        \/ FormatsStep(t)
        \/ ConfidenceStep(t)
        \/ CompletenessStep(t)
        \/ ReturnStep(t)

SpecCalls == InitCalls /\ [][NextCalls]_vars

---------------------------------------------------------------------------
(* The passes of one call run in any order: each pass is one statement of  *)
(* lines 65-84 and fills its own local; the merge of lines 66-88 runs when *)
(* the five locals are filled.  order lists the passes as they ran.        *)

PassCallers == {1}

EnterPasses(v, a) == [Enter(v, a) EXCEPT !.pc = "passes"]

\* the pass of caller t has outcome o; stored is the frame with the pass's
\* local filled
PassDone(t, name, o, stored) ==
    IF Raised(o)
    THEN Leave(t, [frames[t] EXCEPT !.order = Append(@, name)], o)
    ELSE Goto(t, [stored EXCEPT !.order = Append(@, name)], "passes")

\* line 65
StructurePass(t) ==
    /\ frames[t].pc = "passes"
    /\ frames[t].structure_errors = Pending
    /\ LET o == validate_schema_structure(frames[t].populated_schema,
                                          frames[t].target_schema)
       IN PassDone(t, "structure", o,
                   [frames[t] EXCEPT !.structure_errors = o])
    /\ UNCHANGED <<config, call, ret>>

\* line 72 with the rules skipped when the comparator has already reported
TypesPassAfterStructure(t) ==
    /\ frames[t].pc = "passes"
    /\ frames[t].type_errors = Pending
    /\ LET structure == frames[t].structure_errors
           o == IF structure # Pending /\ structure.value # <<>>
                THEN Return(<<>>)
                ELSE _validate_types(frames[t].populated_schema)
       IN PassDone(t, "types", o, [frames[t] EXCEPT !.type_errors = o])
    /\ UNCHANGED <<config, call, ret>>

\* line 72
TypesPass(t) ==
    /\ frames[t].pc = "passes"
    /\ frames[t].type_errors = Pending
    /\ LET o == _validate_types(frames[t].populated_schema)
       IN PassDone(t, "types", o, [frames[t] EXCEPT !.type_errors = o])
    /\ UNCHANGED <<config, call, ret>>

\* line 76
FormatsPass(t) ==
    /\ frames[t].pc = "passes"
    /\ frames[t].format_errors = Pending
    /\ LET o == _validate_formats(frames[t].populated_schema)
       IN PassDone(t, "formats", o, [frames[t] EXCEPT !.format_errors = o])
    /\ UNCHANGED <<config, call, ret>>

\* line 80
ConfidencePass(t) ==
    /\ frames[t].pc = "passes"
    /\ frames[t].confidence_issues = Pending
    /\ LET o == _validate_confidence(Self(frames[t].self),
                                     frames[t].metadata)
       IN PassDone(t, "confidence", o,
                   [frames[t] EXCEPT !.confidence_issues = o])
    /\ UNCHANGED <<config, call, ret>>

\* line 84
CompletenessPass(t) ==
    /\ frames[t].pc = "passes"
    /\ frames[t].completeness_issues = Pending
    /\ LET o == _check_completeness(frames[t].populated_schema,
                                    frames[t].target_schema)
       IN PassDone(t, "completeness", o,
                   [frames[t] EXCEPT !.completeness_issues = o])
    /\ UNCHANGED <<config, call, ret>>

\* lines 66-69, 73, 77, 81, 85 in this order, then lines 88-110
MergeStep(t) ==
    /\ frames[t].pc = "passes"
    /\ LET f == frames[t]
       IN /\ Pending \notin {f.structure_errors, f.type_errors,
                             f.format_errors, f.confidence_issues,
                             f.completeness_issues}
          /\ LET validation_errors ==
                     StructureIssues(f.structure_errors.value)
                     \o f.type_errors.value \o f.format_errors.value
                 additional_issues ==
                     f.confidence_issues.value \o f.completeness_issues.value
             IN Leave(t, [f EXCEPT !.validation_errors = validation_errors,
                                   !.additional_issues = additional_issues],
                      Finish(f, validation_errors, additional_issues))
    /\ UNCHANGED <<config, call, ret>>

InitPasses ==
    /\ config = get_config(PyNone)
    /\ call = [op |-> "none"]
    /\ ret = Pending
    /\ \E v \in Validators, a \in CallInputs :
          frames = [t \in PassCallers |-> EnterPasses(v, a)]
    /\ log = {}

NextPasses ==
    \E t \in PassCallers :
        \/ StructurePass(t)
        \/ TypesPass(t)
        \/ FormatsPass(t)
        \/ ConfidencePass(t)
        \/ CompletenessPass(t)
        \/ MergeStep(t)

SpecPasses == InitPasses /\ [][NextPasses]_vars

---------------------------------------------------------------------------
(* Properties *)

ValidateReturned == call.op = "validate" /\ ret.status = "returned"

TypesOf(issues) == {IssueType(issues[i]) : i \in 1..Len(issues)}

\* the number of positions of a sequence that satisfy a test
CountWhere(seq, Test(_)) == Cardinality({i \in 1..Len(seq) : Test(seq[i])})

\* two sequences hold the same elements the same number of times
SameBag(s, t) ==
    /\ Len(s) = Len(t)
    /\ \A i \in 1..Len(s) :
          LET Same(x) == x = s[i]
          IN CountWhere(s, Same) = CountWhere(t, Same)

ErrorKinds == {"structure_error", "type_error", "format_error"}

AdvisoryKinds == {"low_confidence", "missing_field", "empty_field"}

\* C1: in every report that validate returns, is_valid is true exactly when
\* validation_errors is empty, and validation_errors holds only structure,
\* type and format errors, so that a low_confidence, missing_field or
\* empty_field issue or an upstream issue never makes is_valid false.
C1_IsValidIffNoValidationErrors ==
    ValidateReturned =>
        /\ ret.value.is_valid <=> (ret.value.validation_errors = <<>>)
        /\ TypesOf(ret.value.validation_errors) \subseteq ErrorKinds

\* a valid report that carries every kind of advisory issue and a
\* fatal_error from upstream
C1_Witness ==
    /\ ValidateReturned
    /\ ret.value.is_valid
    /\ AdvisoryKinds \cup {"fatal_error"} \subseteq TypesOf(ret.value.all_issues)

\* C2: in every report that validate returns, all_issues is existing_issues
\* unchanged, then validation_errors, then the confidence and completeness
\* issues; validation_errors holds exactly the issues of the structure, type
\* and format passes and the last segment exactly those of the confidence
\* and completeness passes, so the lengths add up.
C2_AllIssuesConcatenation ==
    ValidateReturned =>
        LET r == ret.value
            e == call.existing_issues
            v == r.validation_errors
            n == Len(e) + Len(v)
            rest == SubSeq(r.all_issues, n + 1, Len(r.all_issues))
            passes ==
                StructureIssues(validate_schema_structure(
                    call.populated_schema, call.target_schema).value)
                \o _validate_types(call.populated_schema).value
                \o _validate_formats(call.populated_schema).value
            advisory ==
                _validate_confidence([config |-> config], call.metadata).value
                \o _check_completeness(call.populated_schema,
                                       call.target_schema).value
        IN /\ Len(r.all_issues) = n + Len(advisory)
           /\ SubSeq(r.all_issues, 1, Len(e)) = e
           /\ SubSeq(r.all_issues, Len(e) + 1, n) = v
           /\ SameBag(v, passes)
           /\ SameBag(rest, advisory)
           /\ TypesOf(v) \subseteq ErrorKinds
           /\ TypesOf(rest) \subseteq AdvisoryKinds

\* a report in which each of the three segments is not empty
C2_Witness ==
    /\ ValidateReturned
    /\ Len(call.existing_issues) = MaxIssues
    /\ call.existing_issues[1] # call.existing_issues[2]
    /\ Len(ret.value.validation_errors) >= 2
    /\ {"low_confidence", "missing_field"} \subseteq TypesOf(ret.value.all_issues)

\* the statistics of a returned call, and the metadata and issues they are of
HasStatistics ==
    /\ call.op \in {"validate", "_calculate_statistics"}
    /\ ret.status = "returned"

Statistics ==
    IF call.op = "validate" THEN ret.value.statistics ELSE ret.value

StatisticsIssues ==
    IF call.op = "validate" THEN ret.value.all_issues ELSE call.all_issues

CounterOf(counts, key) ==
    IF \E i \in 1..Len(counts) : counts[i][1] = key
    THEN counts[CHOOSE i \in 1..Len(counts) : counts[i][1] = key][2]
    ELSE 0

\* C3: in the statistics of every metadata map and issue list,
\* populated_fields + empty_fields = total_fields, the values of
\* severity_counts sum to the number of issues, and the issues without a
\* severity are counted under medium.
C3_StatisticsConsistency ==
    HasStatistics =>
        LET s == Statistics
            issues == StatisticsIssues
            IsMedium(i) == "severity" \notin DOMAIN i \/ i.severity = "medium"
        IN /\ s.total_fields = Len(call.metadata)
           /\ s.populated_fields + s.empty_fields = s.total_fields
           /\ s.populated_fields >= 0 /\ s.empty_fields >= 0
           /\ Sum([i \in 1..Len(s.severity_counts) |-> s.severity_counts[i][2]])
                  = Len(issues)
           /\ CounterOf(s.severity_counts, "medium") = CountWhere(issues, IsMedium)

\* statistics over populated and empty entries and an issue without severity
C3_Witness ==
    /\ HasStatistics
    /\ Statistics.populated_fields > 0
    /\ Statistics.empty_fields > 0
    /\ \E i \in 1..Len(StatisticsIssues) :
          "severity" \notin DOMAIN StatisticsIssues[i]
    /\ \E i \in 1..Len(StatisticsIssues) :
          "severity" \in DOMAIN StatisticsIssues[i]


Finished == ret.status # "pending"

\* C4: with an empty metadata map validate completes without an error and
\* reports total_fields = 0, population_rate = 0.0 and average_confidence =
\* 0.0, whatever the documents and the existing issues are.
C4_EmptyMetadataNeverFails ==
    (call.op = "validate" /\ call.metadata = <<>> /\ Finished) =>
        /\ ret.status = "returned"
        /\ ret.value.statistics.total_fields = 0
        /\ ret.value.statistics.population_rate = <<0, 1>>
        /\ ret.value.statistics.average_confidence = <<0, 1>>

\* the dotted path of a key below a path
PathOf(path, key) == IF path = "" THEN key ELSE path \o "." \o key

HasPrefix(s, prefix) ==
    Len(s) >= Len(prefix) /\ SubSeq(s, 1, Len(prefix)) = prefix

SharedKeys(pop, tgt) == DictKeys(tgt) \cap DictKeys(pop)

RECURSIVE KindMismatches(_, _, _)
\* the paths at which the target has an object or an array and the
\* populated document has a value of another kind, none of them below
\* another
KindMismatches(pop, tgt, path) ==
    IF tgt.kind = "dict"
    THEN IF pop.kind # "dict" THEN {path}
         ELSE UNION {KindMismatches(DictLookup(pop, k), DictLookup(tgt, k),
                                    PathOf(path, k)) : k \in SharedKeys(pop, tgt)}
    ELSE IF tgt.kind = "list" /\ pop.kind # "list" THEN {path}
    ELSE {}

\* an issue names a path in its field, or at the head of its message
IdentifiedBy(issue, path) ==
    \/ "field" \in DOMAIN issue /\ issue.field = path
    \/ HasPrefix(issue.message, path \o ": ")

\* C5: when a target node is an object or an array and the populated node
\* at the same path is of another kind, validate returns a report with
\* is_valid = false and exactly one structure_error for that node, identified
\* by the node's dotted path, and no structure_error below the node.
C5_OneStructureErrorPerMismatch ==
    (call.op = "validate" /\ Finished) =>
        LET mismatches == KindMismatches(call.populated_schema,
                                         call.target_schema, "")
            IsStructureError(i) == IssueType(i) = "structure_error"
        IN mismatches # {} =>
             /\ ret.status = "returned"
             /\ ~ret.value.is_valid
             /\ CountWhere(ret.value.all_issues, IsStructureError)
                    = Cardinality(mismatches)
             /\ \A p \in mismatches :
                   LET IsAt(i) == IsStructureError(i) /\ IdentifiedBy(i, p)
                   IN CountWhere(ret.value.all_issues, IsAt) = 1

IsEmptyLiteral(v) ==
    \/ v.kind = "NoneType"
    \/ v.kind = "str" /\ v.val = ""
    \/ v.kind \in {"list", "dict"} /\ v.val = <<>>

RECURSIVE MissingPaths(_, _, _)
\* the paths of the target keys that are absent from the populated object
\* at the same place while all their ancestors are present
MissingPaths(pop, tgt, path) ==
    IF tgt.kind # "dict" \/ pop.kind # "dict" THEN {}
    ELSE UNION {IF k \in DictKeys(pop)
                THEN MissingPaths(DictLookup(pop, k), DictLookup(tgt, k),
                                  PathOf(path, k))
                ELSE {PathOf(path, k)} : k \in DictKeys(tgt)}

RECURSIVE FilledPaths(_, _, _)
\* the paths of the target keys that are present with a non-empty value
FilledPaths(pop, tgt, path) ==
    IF tgt.kind # "dict" \/ pop.kind # "dict" THEN {}
    ELSE UNION {(IF IsEmptyLiteral(DictLookup(pop, k)) THEN {}
                 ELSE {PathOf(path, k)})
                \cup FilledPaths(DictLookup(pop, k), DictLookup(tgt, k),
                                 PathOf(path, k)) : k \in SharedKeys(pop, tgt)}

RECURSIVE EmptyPaths(_, _, _)
\* the paths at which the target has a scalar and the populated object has
\* the key with null, the empty string, the empty array or the empty object
EmptyPaths(pop, tgt, path) ==
    IF tgt.kind # "dict" \/ pop.kind # "dict" THEN {}
    ELSE UNION {IF DictLookup(tgt, k).kind \in {"dict", "list"}
                THEN EmptyPaths(DictLookup(pop, k), DictLookup(tgt, k),
                                PathOf(path, k))
                ELSE IF IsEmptyLiteral(DictLookup(pop, k))
                THEN {PathOf(path, k)}
                ELSE {} : k \in SharedKeys(pop, tgt)}

ScanFinished == call.op = "_check_completeness" /\ Finished

\* C6: the completeness scan returns one missing_field issue of severity
\* medium for every target key that is absent from the populated object
\* while its ancestors are present, no issue below a missing key, and no
\* issue for a key that is present with a non-empty value.
C6_MissingFieldPerAbsentKey ==
    ScanFinished =>
        LET missing == MissingPaths(call.populated_schema,
                                    call.target_schema, "")
            filled == FilledPaths(call.populated_schema,
                                  call.target_schema, "")
        IN /\ \A p \in missing :
                 LET IsAt(i) == /\ i.type = "missing_field" /\ i.field = p
                                /\ i.severity = "medium"
                     IsBelow(i) == HasPrefix(i.field, p \o ".")
                 IN /\ ret.status = "returned"
                    /\ CountWhere(ret.value, IsAt) = 1
                    /\ CountWhere(ret.value, IsBelow) = 0
           /\ ret.status = "returned" =>
                 \A j \in 1..Len(ret.value) : ret.value[j].field \notin filled

\* C7: the completeness scan returns an empty_field issue of severity low
\* at a path exactly when the target has a scalar there and the populated
\* object has the key with null, "", [] or {}; never for the number 0 and
\* never at a key whose target value is an object or an array.
C7_EmptyFieldExactlyWhenEmpty ==
    ScanFinished =>
        LET empty == EmptyPaths(call.populated_schema, call.target_schema, "")
        IN /\ \A p \in empty :
                 LET IsAt(i) == /\ i.type = "empty_field" /\ i.field = p
                                /\ i.severity = "low"
                 IN /\ ret.status = "returned"
                    /\ CountWhere(ret.value, IsAt) = 1
           /\ ret.status = "returned" =>
                 \A j \in 1..Len(ret.value) :
                    ret.value[j].type = "empty_field"
                        => ret.value[j].field \in empty

\* the same two statements for the scans that return
C6_WhenReturned == ret.status = "returned" => C6_MissingFieldPerAbsentKey

C7_WhenReturned == ret.status = "returned" => C7_EmptyFieldExactlyWhenEmpty

\* the low_confidence issues of a returned confidence pass or report
ConfidenceReturned ==
    call.op \in {"validate", "_validate_confidence"} /\ ret.status = "returned"

ConfidenceIssues ==
    IF call.op = "_validate_confidence" THEN ret.value
    ELSE LET IsLow(i) == IssueType(i) = "low_confidence"
         IN SelectSeq(ret.value.all_issues, IsLow)

\* C8: the confidence pass returns exactly one low_confidence issue, of
\* severity medium and with the entry's path and confidence, for each
\* metadata entry with has_value true and a confidence strictly below
\* require_manual_review_threshold, and nothing for any other entry.
C8_LowConfidenceExactlyBelowThreshold ==
    ConfidenceReturned =>
        LET m == call.metadata
            issues == ConfidenceIssues
            threshold == config.validation.require_manual_review_threshold
            Conf(e) == IF "confidence" \in DOMAIN e THEN e.confidence ELSE 0
            Flagged(e) == /\ "has_value" \in DOMAIN e /\ e.has_value
                          /\ Conf(e) < threshold
            flagged == {i \in 1..Len(m) : Flagged(m[i][2])}
        IN /\ Len(issues) = Cardinality(flagged)
           /\ \A i \in 1..Len(m) :
                 LET IsAt(x) == x.field = m[i][1]
                     IsFull(x) == /\ x.field = m[i][1]
                                  /\ x.type = "low_confidence"
                                  /\ x.severity = "medium"
                                  /\ x.confidence = Conf(m[i][2])
                 IN IF i \in flagged
                    THEN CountWhere(issues, IsAt) = 1
                         /\ CountWhere(issues, IsFull) = 1
                    ELSE CountWhere(issues, IsAt) = 0

\* a pass over one flagged entry and one entry that has no value and a
\* confidence below the threshold
C8_Witness ==
    /\ call.op = "_validate_confidence"
    /\ ret.status = "returned"
    /\ Len(ret.value) = 1
    /\ \E i \in 1..Len(call.metadata) :
          LET e == call.metadata[i][2]
          IN /\ ~e.has_value
             /\ e.confidence < config.validation.require_manual_review_threshold

IncomePath == "employment_data.client_1.annual_income"

\* the value at employment_data.client_1.annual_income, when the path exists
IncomePresent(schema) ==
    /\ "employment_data" \in DictKeys(schema)
    /\ LET employment == DictLookup(schema, "employment_data")
       IN /\ employment.kind = "dict"
          /\ "client_1" \in DictKeys(employment)
          /\ LET client == DictLookup(employment, "client_1")
             IN client.kind = "dict" /\ "annual_income" \in DictKeys(client)

IncomeValue(schema) ==
    DictLookup(DictLookup(DictLookup(schema, "employment_data"), "client_1"),
               "annual_income")

\* C9: the annual-income rule yields exactly one type_error of severity
\* high at employment_data.client_1.annual_income when the path exists with
\* a string, boolean, array or object, and no issue when the path is absent
\* or the value is null or a number.
C9_IncomeTypeErrorUnlessNumeric ==
    (call.op = "_validate_types" /\ ret.status = "returned") =>
        LET IsAt(i) == i.field = IncomePath
            IsFull(i) == /\ i.field = IncomePath /\ i.type = "type_error"
                         /\ i.severity = "high"
            expected ==
                IF /\ IncomePresent(call.schema)
                   /\ IncomeValue(call.schema).kind
                          \notin {"NoneType", "int", "float"}
                THEN 1 ELSE 0
        IN /\ CountWhere(ret.value, IsAt) = expected
           /\ CountWhere(ret.value, IsFull) = expected

AssetsPath == "non_retirement_assets"

\* C10: the assets rule yields exactly one type_error of severity high at
\* non_retirement_assets when the top-level key is present with a value that
\* is not an array, null included, and no issue when the key is absent or
\* the value is an array; so does every list that _validate_types returns.
C10_AssetsTypeErrorUnlessArray ==
    call.op = "_validate_types" =>
        LET IsAt(i) == i.field = AssetsPath
            IsFull(i) == /\ i.field = AssetsPath /\ i.type = "type_error"
                         /\ i.severity = "high"
            expected ==
                IF /\ AssetsPath \in DictKeys(call.schema)
                   /\ DictLookup(call.schema, AssetsPath).kind # "list"
                THEN 1 ELSE 0
            rule == AssetsRule(call.schema)
        IN /\ rule.status = "returned"
           /\ Len(rule.value) = expected
           /\ CountWhere(rule.value, IsFull) = expected
           /\ ret.status = "returned" =>
                 /\ CountWhere(ret.value, IsAt) = expected
                 /\ CountWhere(ret.value, IsFull) = expected

\* a returned list with the type_error for non_retirement_assets: null
C10_Witness ==
    /\ call.op = "_validate_types"
    /\ ret.status = "returned"
    /\ AssetsPath \in DictKeys(call.schema)
    /\ DictLookup(call.schema, AssetsPath).kind = "NoneType"
    /\ \E j \in 1..Len(ret.value) : ret.value[j].field = AssetsPath

DobPath == "general_information.client_1.dob"

\* the value at general_information.client_1.dob, when the path exists
DobPresent(schema) ==
    /\ "general_information" \in DictKeys(schema)
    /\ LET general == DictLookup(schema, "general_information")
       IN /\ general.kind = "dict"
          /\ "client_1" \in DictKeys(general)
          /\ LET client == DictLookup(general, "client_1")
             IN client.kind = "dict" /\ "dob" \in DictKeys(client)

DobValue(schema) ==
    DictLookup(DictLookup(DictLookup(schema, "general_information"),
                          "client_1"), "dob")

\* four digits, hyphen, two digits, hyphen, two digits, and nothing else
HasDateForm(s) ==
    /\ Len(s) = 10
    /\ \A i \in {1, 2, 3, 4, 6, 7, 9, 10} : IsDigit(SubSeq(s, i, i))
    /\ \A i \in {5, 8} : SubSeq(s, i, i) = "-"

\* C11: the date-of-birth rule yields exactly one format_error of severity
\* medium at general_information.client_1.dob when the path exists with a
\* non-empty string that is not four digits, hyphen, two digits, hyphen, two
\* digits; it yields no issue when the path is absent, the value is null or
\* the empty string, or the value has that form.  Stated for the format
\* passes that return.
C11_DobFormatErrorUnlessDateForm ==
    (call.op = "_validate_formats" /\ ret.status = "returned") =>
        LET IsAt(i) == i.field = DobPath
            IsFull(i) == /\ i.field = DobPath /\ i.type = "format_error"
                         /\ i.severity = "medium"
            dob == DobValue(call.schema)
        IN IF ~DobPresent(call.schema) THEN CountWhere(ret.value, IsAt) = 0
           ELSE IF dob.kind = "NoneType" THEN CountWhere(ret.value, IsAt) = 0
           ELSE IF dob.kind = "str"
           THEN LET expected == IF dob.val = "" \/ HasDateForm(dob.val)
                                THEN 0 ELSE 1
                IN /\ CountWhere(ret.value, IsAt) = expected
                   /\ CountWhere(ret.value, IsFull) = expected
           ELSE TRUE

ZipPath == "general_information.home_address.zip"

\* the value at general_information.home_address.zip, when the path exists
ZipPresent(schema) ==
    /\ "general_information" \in DictKeys(schema)
    /\ LET general == DictLookup(schema, "general_information")
       IN /\ general.kind = "dict"
          /\ "home_address" \in DictKeys(general)
          /\ LET address == DictLookup(general, "home_address")
             IN address.kind = "dict" /\ "zip" \in DictKeys(address)

ZipValue(schema) ==
    DictLookup(DictLookup(DictLookup(schema, "general_information"),
                          "home_address"), "zip")

\* five digits, optionally followed by a hyphen and four digits, and
\* nothing else
HasZipForm(s) ==
    \/ /\ Len(s) = 5
       /\ \A i \in 1..5 : IsDigit(SubSeq(s, i, i))
    \/ /\ Len(s) = 10
       /\ \A i \in {1, 2, 3, 4, 5, 7, 8, 9, 10} : IsDigit(SubSeq(s, i, i))
       /\ SubSeq(s, 6, 6) = "-"

\* C12: the postal-code rule yields exactly one format_error of severity low
\* at general_information.home_address.zip when the path exists with a
\* non-empty string that is not five digits optionally followed by a hyphen
\* and four digits; it yields no issue when home_address or zip is absent,
\* the value is null or the empty string, or the value has that form.
\* Stated for the format passes that return.
C12_ZipFormatErrorUnlessZipForm ==
    (call.op = "_validate_formats" /\ ret.status = "returned") =>
        LET IsAt(i) == i.field = ZipPath
            IsFull(i) == /\ i.field = ZipPath /\ i.type = "format_error"
                         /\ i.severity = "low"
            zip == ZipValue(call.schema)
        IN IF ~ZipPresent(call.schema) THEN CountWhere(ret.value, IsAt) = 0
           ELSE IF zip.kind = "NoneType" THEN CountWhere(ret.value, IsAt) = 0
           ELSE IF zip.kind = "str"
           THEN LET expected == IF zip.val = "" \/ HasZipForm(zip.val)
                                THEN 0 ELSE 1
                IN /\ CountWhere(ret.value, IsAt) = expected
                   /\ CountWhere(ret.value, IsFull) = expected
           ELSE TRUE

\* C13: for every populated object and every target object validate returns
\* a report and never raises, whatever kinds of values the populated object
\* holds where the target or a rule expects an object.
C13_ValidateNeverRaises ==
    (call.op = "validate" /\ Finished) =>
        /\ ret.status = "returned"
        /\ DOMAIN ret.value =
               {"is_valid", "validation_errors", "all_issues", "statistics"}

\* the outcome of validate run alone on the arguments a call was made with
Alone(f) ==
    validate(Self(f.self), f.before.populated_schema, f.before.target_schema,
             f.before.metadata, f.before.existing_issues)

\* C14: validate is deterministic and keeps no hidden state: any two
\* finished calls with identical populated document, target, metadata and
\* existing issues, on whichever instances and with whatever calls before
\* or between them, have identical outcomes.
C14_IdenticalCallsIdenticalReports ==
    /\ \A e1 \in log, e2 \in log :
          e1.inputs = e2.inputs => e1.ret = e2.ret
    /\ \A t \in DOMAIN frames :
          frames[t].pc = "done" =>
              \A e \in log : e.inputs = frames[t].before
                                => e.ret = frames[t].ret

\* both callers have finished a returning call with the same arguments on
\* different instances, and a call with other arguments has finished too
C14_Witness ==
    /\ \A t \in Callers : t \in DOMAIN frames /\ frames[t].pc = "done"
    /\ frames[1].before = frames[2].before
    /\ frames[1].self # frames[2].self
    /\ frames[1].ret.status = "returned"
    /\ Len(frames[1].ret.value.validation_errors) > 0
    /\ \E e \in log : e.inputs # frames[1].before

\* C15: validate leaves its four arguments unchanged: at every point of a
\* call and after it, the populated document, the target, the metadata map
\* and the existing_issues list equal their values at the time of the call.
C15_InputsUnchanged ==
    \A t \in DOMAIN frames :
        frames[t].pc # "idle" =>
            /\ frames[t].populated_schema = frames[t].before.populated_schema
            /\ frames[t].target_schema = frames[t].before.target_schema
            /\ frames[t].metadata = frames[t].before.metadata
            /\ frames[t].existing_issues = frames[t].before.existing_issues

\* a returned call that had existing issues and added errors of its own
C15_Witness ==
    \E t \in DOMAIN frames :
        /\ frames[t].pc = "done"
        /\ frames[t].ret.status = "returned"
        /\ Len(frames[t].before.existing_issues) > 0
        /\ Len(frames[t].ret.value.validation_errors) > 0
        /\ Len(frames[t].ret.value.all_issues)
               > Len(frames[t].existing_issues)

\* C16: when the calls of two callers are interleaved at any point, on the
\* same or on different instances, each call ends with the outcome it has
\* when run alone.
C16_InterleavedCallsAsAlone ==
    \A t \in DOMAIN frames :
        frames[t].pc = "done" => frames[t].ret = Alone(frames[t])

\* a call on one document pair has returned while a call on another pair,
\* begun before that return, is past its completeness scan
C16_Witness ==
    /\ \A t \in Callers : t \in DOMAIN frames
    /\ frames[1].pc = "done"
    /\ frames[1].ret.status = "returned"
    /\ frames[2].pc = "combine"
    /\ frames[1].before.populated_schema # frames[2].before.populated_schema
    /\ frames[1].ret.value.statistics.total_issues > 0
    /\ Len(frames[2].additional_issues) > 0

\* C17: the passes read only the arguments of the call: run in any order
\* and merged in the fixed order they give the report of the sequential
\* run, and they end without a report exactly when the sequential run does.
C17_AnyPassOrderSameReport ==
    \A t \in DOMAIN frames :
        (frames[t].pc = "done" /\ frames[t].order # <<>>) =>
            LET sequential == Alone(frames[t])
            IN /\ frames[t].ret.status = sequential.status
               /\ sequential.status = "returned"
                      => frames[t].ret = sequential

\* a report with errors of the comparator and of the type rules, from a
\* run of the passes in the reverse of the sequential order
C17_Witness ==
    \E t \in DOMAIN frames :
        /\ frames[t].pc = "done"
        /\ frames[t].order = <<"completeness", "confidence", "formats",
                               "types", "structure">>
        /\ frames[t].ret.status = "returned"
        /\ {"structure_error", "type_error"}
               \subseteq TypesOf(frames[t].ret.value.validation_errors)

ComparatorReturned ==
    call.op = "validate_schema_structure" /\ ret.status = "returned"

\* C18: the comparator emits a message only at a node where the target is
\* an object or an array and the data has a value of another kind, one
\* message per such node: nothing at or below a target key that the data
\* object lacks, nothing where the target is a scalar, and nothing at or
\* below an array of the data whose target is an array.
C18_ComparatorOnlyKindMismatches ==
    ComparatorReturned =>
        LET mismatches == KindMismatches(call.data, call.schema, "root")
            missing == MissingPaths(call.data, call.schema, "root")
            At(m, p) == HasPrefix(m, p \o ": Expected ")
            AtOrBelow(m, p) == HasPrefix(m, p \o ":") \/ HasPrefix(m, p \o ".")
        IN /\ \A i \in 1..Len(ret.value) :
                 /\ \E p \in mismatches : At(ret.value[i], p)
                 /\ \A p \in missing : ~AtOrBelow(ret.value[i], p)
           /\ Len(ret.value) = Cardinality(mismatches)
           /\ (call.schema.kind \notin {"dict", "list"}) => ret.value = <<>>
           /\ (call.schema.kind = "list" /\ call.data.kind = "list")
                  => ret.value = <<>>

\* no message for an array whose elements are not objects like the
\* target's element, nor for the absent key tags
C18_Witness ==
    /\ ComparatorReturned
    /\ call.schema = TargetItems
    /\ call.data = PyDict(<<<<"items", PyList(<<PyInt(5), PyStr("x")>>)>>>>)
    /\ ret.value = <<>>

\* C19: the comparator returns a list of messages without raising for every
\* pair of values, a data root or inner node that is null, a scalar or an
\* array where the target has an object included.
C19_ComparatorNeverRaises ==
    (call.op = "validate_schema_structure" /\ Finished) =>
        /\ ret.status = "returned"
        /\ ret.value \in Seq(STRING)

\* a null root against an object target gives one message
C19_Witness ==
    /\ ComparatorReturned
    /\ call.data = PyNone
    /\ call.schema = TargetA
    /\ ret.value = <<"root: Expected dict, got NoneType">>

\* C20: every issue that the passes of validate add to the report carries a
\* type, a message and a severity of high, medium or low.
C20_EngineIssuesCarrySeverity ==
    ValidateReturned =>
        LET all == ret.value.all_issues
        IN \A i \in (Len(call.existing_issues) + 1)..Len(all) :
              /\ {"type", "message", "severity"} \subseteq DOMAIN all[i]
              /\ all[i].severity \in {"high", "medium", "low"}

\* C21: the completeness scan does not raise when the populated value at a
\* key is of another kind than the target's (null, a number, a string, a
\* boolean or an array where the target has an object): it returns its
\* issues, those of the remaining target keys included.
C21_ScanNeverRaises ==
    ScanFinished =>
        /\ ret.status = "returned"
        /\ \A p \in MissingPaths(call.populated_schema, call.target_schema, "") :
              \E j \in 1..Len(ret.value) : ret.value[j].field = p

\* an issue is of a type: its own, or "unknown" when it has none
IsOfType(issue, type) ==
    IF "type" \in DOMAIN issue THEN issue.type = type ELSE type = "unknown"

\* C22: issue_types has one key for each type occurring in all_issues, with
\* the number of issues of that type; issues without a type are counted
\* under "unknown"; no key has a zero count; the counts sum to total_issues,
\* which is len(all_issues).
C22_IssueTypesHistogram ==
    HasStatistics =>
        LET s == Statistics
            issues == StatisticsIssues
            h == s.issue_types
        IN /\ s.total_issues = Len(issues)
           /\ Sum([i \in 1..Len(h) |-> h[i][2]]) = s.total_issues
           /\ \A i \in 1..Len(h) :
                 LET Same(x) == IsOfType(x, h[i][1])
                 IN /\ h[i][2] > 0
                    /\ h[i][2] = CountWhere(issues, Same)
                    /\ \A j \in 1..Len(h) : h[j][1] = h[i][1] => j = i
           /\ \A k \in 1..Len(issues) :
                 \E i \in 1..Len(h) : IsOfType(issues[k], h[i][1])

\* statistics over two issues of one type and an issue without a type
C22_Witness ==
    /\ HasStatistics
    /\ \E i \in 1..Len(Statistics.issue_types) :
          Statistics.issue_types[i] = <<"unknown", 1>>
    /\ \E i \in 1..Len(Statistics.issue_types) :
          Statistics.issue_types[i][2] = 2

\* C23: severity_counts has the keys high, medium and low, each with the
\* number of issues of that severity, zero when there are none, and the
\* issues without a severity counted under medium.
C23_SeverityCountsSeeded ==
    HasStatistics =>
        LET c == Statistics.severity_counts
            issues == StatisticsIssues
        IN \A sev \in {"high", "medium", "low"} :
              LET Has(x) == IF "severity" \in DOMAIN x THEN x.severity = sev
                            ELSE sev = "medium"
                  IsKey(e) == e[1] = sev
              IN /\ CountWhere(c, IsKey) = 1
                 /\ \A i \in 1..Len(c) :
                       c[i][1] = sev => c[i][2] = CountWhere(issues, Has)

\* statistics with no issue of severity high or low, one issue without a
\* severity and one of a severity outside the three
C23_Witness ==
    /\ HasStatistics
    /\ Statistics.severity_counts =
           <<<<"high", 0>>, <<"medium", 1>>, <<"low", 0>>, <<"critical", 1>>>>
    /\ \E i \in 1..Len(StatisticsIssues) :
          "severity" \notin DOMAIN StatisticsIssues[i]

\* C24: for a non-empty metadata map population_rate is populated_fields /
\* total_fields and average_confidence is the sum of the confidences of all
\* entries, 0 for an entry without one and the entries without a value
\* included, divided by total_fields; both are functions of the metadata.
C24_RatesFromMetadata ==
    (HasStatistics /\ call.metadata # <<>>) =>
        LET m == call.metadata
            s == Statistics
            total == Len(m)
            populated ==
                Cardinality({i \in 1..total :
                                /\ "has_value" \in DOMAIN m[i][2]
                                /\ m[i][2].has_value})
            confidence ==
                Sum([i \in 1..total |->
                        IF "confidence" \in DOMAIN m[i][2]
                        THEN m[i][2].confidence ELSE 0])
        IN /\ s.total_fields = total
           /\ s.populated_fields = populated
           /\ s.population_rate[2] > 0
           /\ s.population_rate[1] * total = populated * s.population_rate[2]
           /\ s.average_confidence[2] > 0
           /\ s.average_confidence[1] * total
                  = confidence * s.average_confidence[2]

\* statistics of an entry with a low confidence and an entry without a
\* value
C24_Witness ==
    /\ HasStatistics
    /\ Len(call.metadata) = 2
    /\ Statistics.populated_fields = 1
    /\ Statistics.population_rate = <<1, 2>>
    /\ Statistics.average_confidence = <<15, 1>>

\* the issues that the passes of a returned validate added to the report
EngineAdded ==
    SubSeq(ret.value.all_issues, Len(call.existing_issues) + 1,
           Len(ret.value.all_issues))

\* C25: every issue that the passes of validate add to a report is of one
\* of the kinds structure_error, type_error, format_error, low_confidence,
\* missing_field.
C25_EngineEmitsFiveKinds ==
    ValidateReturned =>
        \A i \in 1..Len(EngineAdded) :
            /\ "type" \in DOMAIN EngineAdded[i]
            /\ EngineAdded[i].type \in
                   {"structure_error", "type_error", "format_error",
                    "low_confidence", "missing_field"}

\* C25, amended: every issue that the passes of validate add to a report is
\* of one of the six kinds structure_error, type_error, format_error,
\* low_confidence, missing_field, empty_field.
C25_EngineEmitsSixKinds ==
    ValidateReturned =>
        \A i \in 1..Len(EngineAdded) :
            /\ "type" \in DOMAIN EngineAdded[i]
            /\ EngineAdded[i].type \in
                   {"structure_error", "type_error", "format_error",
                    "low_confidence", "missing_field", "empty_field"}

\* a report to which the completeness scan added an empty_field issue and
\* the comparator a structure_error
C25_Witness ==
    /\ ValidateReturned
    /\ {"empty_field", "structure_error"} \subseteq TypesOf(EngineAdded)

RECURSIVE PreOrder(_, _)
RECURSIVE PreOrderItems(_, _)
\* the paths of the keys of a target object in pre-order: a key before the
\* keys of its value, both before the next key
PreOrder(tgt, path) ==
    IF tgt.kind = "dict" THEN PreOrderItems(tgt.val, path) ELSE <<>>

PreOrderItems(items, path) ==
    IF items = <<>> THEN <<>>
    ELSE <<PathOf(path, items[1][1])>>
         \o PreOrder(items[1][2], PathOf(path, items[1][1]))
         \o PreOrderItems(Tail(items), path)

\* the position of an element in a sequence without repetitions, 0 when it
\* is not there
Position(seq, x) ==
    IF \E i \in 1..Len(seq) : seq[i] = x
    THEN CHOOSE i \in 1..Len(seq) : seq[i] = x
    ELSE 0

\* the place of an error in validation_errors: structure errors, the
\* income, the assets, the date of birth, the ZIP code
ErrorRank(issue) ==
    IF issue.type = "structure_error" THEN 1
    ELSE IF issue.type = "type_error" /\ issue.field = IncomePath THEN 2
    ELSE IF issue.type = "type_error" /\ issue.field = AssetsPath THEN 3
    ELSE IF issue.type = "format_error" /\ issue.field = DobPath THEN 4
    ELSE IF issue.type = "format_error" /\ issue.field = ZipPath THEN 5
    ELSE 0

\* C27: in validation_errors the structure errors come first, then the type
\* error of the income, of the assets, then the format error of the date of
\* birth, of the ZIP code; in the last segment of all_issues the
\* low_confidence issues come first, in the order of the metadata entries,
\* then the missing_field and empty_field issues in pre-order of the
\* target's keys.
C27_OrderInsideSegments ==
    ValidateReturned =>
        LET v == ret.value.validation_errors
            rest == SubSeq(EngineAdded, Len(v) + 1, Len(EngineAdded))
            keys == [i \in 1..Len(call.metadata) |-> call.metadata[i][1]]
            paths == PreOrder(call.target_schema, "")
            IsLow(x) == x.type = "low_confidence"
            low == Cardinality({i \in 1..Len(rest) : IsLow(rest[i])})
        IN /\ \A i \in 1..Len(v) : ErrorRank(v[i]) > 0
           /\ \A i \in 1..Len(v), j \in 1..Len(v) :
                 i < j => /\ ErrorRank(v[i]) <= ErrorRank(v[j])
                          /\ ErrorRank(v[i]) > 1
                                 => ErrorRank(v[i]) < ErrorRank(v[j])
           /\ \A i \in 1..Len(rest) :
                 IF i <= low
                 THEN /\ IsLow(rest[i])
                      /\ Position(keys, rest[i].field) > 0
                 ELSE /\ rest[i].type \in {"missing_field", "empty_field"}
                      /\ Position(paths, rest[i].field) > 0
           /\ \A i \in 1..Len(rest), j \in 1..Len(rest) :
                 i < j =>
                     /\ j <= low => Position(keys, rest[i].field)
                                        < Position(keys, rest[j].field)
                     /\ i > low => Position(paths, rest[i].field)
                                       < Position(paths, rest[j].field)

\* a report with a structure error, both type errors, both format errors,
\* two low_confidence issues, and completeness issues after them
C27_Witness ==
    /\ ValidateReturned
    /\ LET v == ret.value.validation_errors
       IN /\ {ErrorRank(v[i]) : i \in 1..Len(v)} = {1, 2, 3, 4, 5}
    /\ LET IsLow(x) == IssueType(x) = "low_confidence"
       IN CountWhere(EngineAdded, IsLow) = 2
    /\ LET IsMissing(x) == IssueType(x) = "missing_field"
       IN CountWhere(EngineAdded, IsMissing) = 4

\* the outcome of validate on the same documents with no metadata and no
\* existing issues
WithoutAdvice ==
    validate([config |-> config], call.populated_schema, call.target_schema,
             <<>>, <<>>)

\* C28: is_valid and validation_errors are functions of the populated and
\* the target document: whatever the metadata and the existing issues are,
\* issues of type fatal_error or severity high included, they are those of
\* the call on the same documents with empty metadata and no existing
\* issues.
C28_VerdictFromDocumentsOnly ==
    ValidateReturned =>
        /\ WithoutAdvice.status = "returned"
        /\ ret.value.is_valid = WithoutAdvice.value.is_valid
        /\ ret.value.validation_errors = WithoutAdvice.value.validation_errors

\* a valid report of a call with a fatal_error of severity high among the
\* existing issues and two entries of low confidence
C28_Witness ==
    /\ ValidateReturned
    /\ ret.value.is_valid
    /\ \E i \in 1..Len(call.existing_issues) :
          /\ IssueType(call.existing_issues[i]) = "fatal_error"
          /\ IssueSeverity(call.existing_issues[i]) = "high"
    /\ LET IsLow(x) == IssueType(x) = "low_confidence"
       IN CountWhere(ret.value.all_issues, IsLow) = 2

RECURSIVE ScalarLeaves(_, _)
\* the scalar values reachable from a node through object keys only, each
\* with the dot-joined keys that lead to it
ScalarLeaves(node, path) ==
    IF node.kind = "dict"
    THEN UNION {ScalarLeaves(DictLookup(node, k), PathOf(path, k))
                   : k \in DictKeys(node)}
    ELSE IF node.kind = "list" \/ path = "" THEN {}
    ELSE {<<path, node>>}

PipelineReport ==
    /\ call.op = "process_documents"
    /\ ret.status = "returned"
    /\ call.file_ids # <<>>

\* C29: in the pipeline every metadata entry has confidence 1.0 when
\* has_value is true and 0.0 otherwise; with the threshold 0.5 the report of
\* process_documents holds no low_confidence issue, and its
\* average_confidence equals its population_rate.
C29_PipelineConfidenceIsPresence ==
    /\ (call.op = "process_documents" /\ ret.status = "returned") =>
          "low_confidence" \notin TypesOf(ret.value.issues_for_review)
    /\ PipelineReport =>
          LET m == ret.value.field_metadata
              s == ret.value.validation.statistics
          IN /\ config.validation.require_manual_review_threshold = 50
             /\ \A i \in 1..Len(m) :
                   m[i][2].confidence = IF m[i][2].has_value THEN 100 ELSE 0
             /\ s.average_confidence[2] > 0
             /\ s.population_rate[2] > 0
             /\ s.average_confidence[1] * s.population_rate[2]
                    = 100 * s.population_rate[1] * s.average_confidence[2]

\* a report over a document with one scalar without a value and one with
C29_Witness ==
    /\ PipelineReport
    /\ ret.value.field_metadata =
           <<<<"x.y", [has_value |-> FALSE, confidence |-> 0]>>,
             <<"x.z", [has_value |-> TRUE, confidence |-> 100]>>>>
    /\ ret.value.validation.statistics.population_rate = <<1, 2>>
    /\ ret.value.validation.statistics.average_confidence = <<50, 1>>

\* the missing_field issues of the top-level keys of a target object
TopLevelMissing(target) ==
    [i \in 1..Len(target.val) |->
        [type |-> "missing_field", field |-> target.val[i][1],
         message |-> "Field '" \o target.val[i][1] \o "' is missing",
         severity |-> "medium"]]

\* C30: a failed extraction gives an empty populated document and one issue
\* text, and process_documents validates the empty object against the
\* target; validate of an empty object against a target object returns
\* is_valid true and no validation_errors, the upstream issues first in
\* all_issues, then one missing_field issue per top-level target key and no
\* issue for a nested key.
C30_FailedExtractionReport ==
    /\ (call.op = "process_documents" /\ call.file_ids # <<>>
            /\ call.response.raised /\ Finished) =>
          /\ ret.status = "returned"
          /\ ret.value.client_profile = PyDict(<<>>)
          /\ ret.value.field_metadata = <<>>
          /\ ret.value.validation.is_valid
          /\ ret.value.issues_for_review =
                 <<[type |-> "llm_flag",
                    message |-> "Fatal extraction error: "
                                \o call.response.error,
                    severity |-> "medium"]>>
                 \o TopLevelMissing(call.target_schema)
    /\ (call.op = "validate" /\ call.populated_schema = PyDict(<<>>)
            /\ call.target_schema.kind = "dict" /\ Finished) =>
          /\ ret.status = "returned"
          /\ ret.value.is_valid
          /\ ret.value.validation_errors = <<>>
          /\ LET all == ret.value.all_issues
                 first == call.existing_issues
                 last == TopLevelMissing(call.target_schema)
                 n == Len(all)
             IN /\ n >= Len(first) + Len(last)
                /\ SubSeq(all, 1, Len(first)) = first
                /\ SubSeq(all, n - Len(last) + 1, n) = last
                /\ \A i \in (Len(first) + 1)..(n - Len(last)) :
                      all[i].type = "low_confidence"

\* a failed extraction reported against the profile target, whose three
\* top-level keys are missing and whose nested keys are not mentioned
C30_Witness ==
    /\ call.op = "process_documents"
    /\ call.response.raised
    /\ call.target_schema = TargetProfile
    /\ ret.status = "returned"
    /\ Len(ret.value.issues_for_review) = 4
    /\ ret.value.issues_for_review[1].type = "llm_flag"
    /\ ret.value.issues_for_review[2].field = "general_information"
    /\ ret.value.validation.is_valid

===========================================================================
